---------------------------- MODULE Spec2Model ----------------------------
(***************************************************************************)
(* FileScope (src/App/FileScope.py): the background tasks of the indexing  *)
(* and duplicate-detection engine, each a QThread whose run() is modelled  *)
(* step by step:                                                           *)
(*   SystemIndexerThread        run / full_index / incremental_update      *)
(*   FastDuplicateScannerThread run / normalize_filename                   *)
(*   DeepDuplicateScannerThread run                                        *)
(*   FileDeletionThread         run, started by                            *)
(*   DuplicateFinderTab         delete_selected                            *)
(* One behaviour follows one task; `kind` says which one.  Each task has   *)
(* its own specification; SpecCancel joins the four scans.                 *)
(***************************************************************************)
EXTENDS Integers, Sequences, FiniteSets, TLC

(***************************************************************************)
(* Bounds of the model.                                                    *)
(***************************************************************************)
\* Number of file paths of the modelled file system.
NumPaths == 3
\* Number of files under the root folder of a duplicate scan.
NumScanFiles == 4
\* The longest index a search runs over.
MaxIndexLen == 4
\* How many searches the user starts one after another.
MaxSearches == 2
\* How many scanner threads and deletion threads the duplicate tab starts.
MaxScans == 2
MaxDeletions == 1
\* How many pieces the generated file names of normalize_filename have.
MaxNameTokens == 2
\* How many injected failures (a stat that raises, a store call that
\* raises, a hash that raises) one behaviour may contain.
MaxFaults == 1
\* How many writes of another process one behaviour of a scan may contain.
MaxWrites == 1
\* How many files a duplicate group handed to wasted_space may hold.
MaxGroupLen == 3
\* How many list objects the explorer tab and its threads may create, and
\* how many times the user may force a full re-index.
MaxLists == 4
MaxReindexes == 1

(***************************************************************************)
(* Program constants.  The three thresholds are scaled down so that a      *)
(* batch fills, and a cache is "large", within NumPaths files; the         *)
(* comparisons that use them are the source's.                             *)
(***************************************************************************)
\* full_index: batch_size = 500 (line 843), scaled.
batch_size == 2
\* run: len(cached_files) > 1000 (line 818), scaled.
cache_threshold == 1
\* Fast/Deep run: total_scanned % 100 == 0 (lines 1124, 1227), scaled.
scan_progress_every == 2
\* incremental_update: abs(mtime - cached) > 1 (line 957).
mtime_tolerance == 1
\* incremental_update: checked % 1000 == 0 (line 976), scaled.
check_progress_every == 2
\* Deep run: hashed_count % 10 == 0 (line 1259), scaled.
hash_progress_every == 2
\* FileSearchThread.run: len(results) % 100 == 0 (line 1046), scaled.
search_batch_size == 2

Paths == 1 .. NumPaths

ScanPaths == 1 .. NumScanFiles

(***************************************************************************)
(* The walked tree.  get_available_drives() yields the drives; os.walk     *)
(* yields each drive's directories in turn with the files they hold.       *)
(* Paths 1 and 2 lie in directory 1 on drive 1, path 3 in directory 2 and  *)
(* every further path in directory 3, both on drive 2, so that a walk that *)
(* leaves drive 1 still has a file to meet.  The scanners walk one root    *)
(* folder that holds the three directories.                                *)
(***************************************************************************)
get_available_drives == <<1, 2>>

DirsOfDrive(d) == IF d = 1 THEN <<1>> ELSE <<2, 3>>

RootDirs == <<1, 2, 3>>

DirOf(p) == IF p <= 2 THEN 1 ELSE IF p = 3 THEN 2 ELSE 3

Min(S) == CHOOSE x \in S : \A y \in S : x <= y

RECURSIVE SortedSeq(_)
SortedSeq(S) == IF S = {} THEN <<>>
                ELSE LET m == Min(S) IN <<m>> \o SortedSeq(S \ {m})

(***************************************************************************)
(* File states.  content 0 is the empty file; contents 1 and 2 are two     *)
(* different one-byte contents, content 3 a two-byte content.              *)
(***************************************************************************)
SizeOfContent(c) == IF c = 0 THEN 0 ELSE IF c = 3 THEN 2 ELSE 1

Gone == [ex |-> FALSE, size |-> 0, mtime |-> 0, content |-> 0]

File(c, m) == [ex |-> TRUE, size |-> SizeOfContent(c), mtime |-> m, content |-> c]

NoRow == [ex |-> FALSE, size |-> 0, modified |-> 0]

Row(s, m) == [ex |-> TRUE, size |-> s, modified |-> m]

\* The row a previous scan wrote for a path: size 1, modified 10.
CachedRow == Row(1, 10)

VARIABLES
    kind,             \* which task this behaviour follows
    pc,               \* the task's position in its code
    should_stop,      \* the task's cooperative cancellation flag
    fs,               \* the file system: path -> file state
    faults,           \* failures injected so far
    log,              \* history: what the task visited, wrote and emitted
    \* the loop cursors of the walk
    drive, dirIdx, files, fileIdx,
    \* SystemIndexerThread and its store
    force_full_index, db_manager, timer_pending, store, store0,
    index, batch, total_files,
    indexed_paths, existing_paths, new_files, updated_files, checked,
    \* FastDuplicateScannerThread
    use_size_filter, case_sensitive, file_map, total_scanned,
    \* DeepDuplicateScannerThread
    size_map, files_to_hash, hash_map, hashIdx, hashed_count,
    \* DuplicateFinderTab.delete_selected and FileDeletionThread
    files_to_delete, delIdx, deleted_count, failed_count,
    \* normalize_filename called on its own
    norm_in, norm_out,
    \* DuplicateGroup.wasted_space called on its own: the group and the result
    group, wasted,
    \* FileExplorerTab and the list objects it shares with its threads
    heap, explorer, handed,
    \* FileExplorerTab.perform_search and its FileSearchThreads
    file_index, search_thread, search_threads, query,
    \* DuplicateFinderTab: its widgets and fields, the threads it started,
    \* and the signals queued for its slots
    tab, scanner_threads, deletion_threads, ui_queue

envVars  == <<kind, fs>>
walkVars == <<drive, dirIdx, files, fileIdx>>
idxVars  == <<force_full_index, db_manager, timer_pending, store, store0,
              index, batch, total_files>>
incVars  == <<indexed_paths, existing_paths, new_files, updated_files, checked>>

fastVars == <<use_size_filter, case_sensitive, file_map, total_scanned>>
deepVars == <<size_map, files_to_hash, hash_map, hashIdx, hashed_count>>
delVars  == <<files_to_delete, delIdx, deleted_count, failed_count>>
snapVars == <<heap, explorer, handed>>
normVars == <<norm_in, norm_out, group, wasted, snapVars>>
searchVars == <<file_index, search_thread, search_threads, query>>
tabVars  == <<tab, scanner_threads, deletion_threads, ui_queue>>
\* What the indexer leaves alone, and what the other tasks leave alone.
dupVars     == <<fastVars, deepVars, delVars, normVars, searchVars, tabVars>>
indexerVars == <<idxVars, incVars, searchVars, tabVars>>

vars == <<kind, pc, should_stop, fs, faults, log, walkVars, idxVars, incVars,
          dupVars>>

(***************************************************************************)
(* History entries.                                                        *)
(***************************************************************************)
Emit(sig, arg) == [op |-> "emit", sig |-> sig, arg |-> arg]
Visit(p)       == [op |-> "visit", sig |-> "", arg |-> p]
Save(ps)       == [op |-> "save", sig |-> "", arg |-> ps]
SaveFailed     == [op |-> "save_failed", sig |-> "", arg |-> 0]
Prune(ps)      == [op |-> "prune", sig |-> "", arg |-> ps]
Stopped(at)    == [op |-> "stop", sig |-> at, arg |-> 0]
Selected(sel, reply) == [op |-> "selected", sig |-> reply, arg |-> sel]
Started(sel)   == [op |-> "start", sig |-> "", arg |-> sel]
Attempt(p, outcome)  == [op |-> "attempt", sig |-> outcome, arg |-> p]
Written(p)     == [op |-> "write", sig |-> "", arg |-> p]
Reindexed      == [op |-> "reindex", sig |-> "", arg |-> 0]

\* Whether one more failure may be injected.
Outcomes == IF faults < MaxFaults THEN {TRUE, FALSE} ELSE {TRUE}

\* os.walk's file list of a directory: the files that exist, in name order.
Listing(d) == SortedSeq({p \in DOMAIN fs : DirOf(p) = d /\ fs[p].ex})

(***************************************************************************)
(* DatabaseManager                                                         *)
(***************************************************************************)
\* FileEntry built from os.stat (lines 871-878, 943-950, 960-967).
FileEntry(p) == [path |-> p, size |-> fs[p].size, modified |-> fs[p].mtime]

\* INSERT OR REPLACE of every entry, by path.
RECURSIVE save_file_index(_, _)
save_file_index(st, entries) ==
    IF entries = <<>> THEN st
    ELSE LET e == Head(entries)
         IN  save_file_index([st EXCEPT ![e.path] = Row(e.size, e.modified)],
                             Tail(entries))

get_indexed_paths(st) == {p \in Paths : st[p].ex}

\* SELECT ... FROM file_index: one FileEntry per row, here in path order.
load_file_index(st) ==
    LET ps == SortedSeq(get_indexed_paths(st))
    IN  [i \in 1 .. Len(ps) |->
            [path |-> ps[i], size |-> st[ps[i]].size, modified |-> st[ps[i]].modified]]

\* deleted_paths = indexed_paths - existing_paths; DELETE each.
remove_deleted_files(st, existing) ==
    [p \in Paths |-> IF st[p].ex /\ p \notin existing THEN NoRow ELSE st[p]]

PathsOf(entries) == {entries[i].path : i \in 1 .. Len(entries)}

(***************************************************************************)
(* Initial states.                                                         *)
(***************************************************************************)
IndexerFiles == {Gone, File(1, 10), File(1, 11), File(1, 12), File(3, 10)}

InitShared ==
    /\ should_stop = FALSE
    /\ faults = 0
    /\ log = <<>>
    /\ drive = 1 /\ dirIdx = 1 /\ files = <<>> /\ fileIdx = 1

\* No search has been started (FileExplorerTab.__init__, line 1755).
IdleSearch ==
    /\ file_index = <<>> /\ search_thread = 0
    /\ search_threads = <<>> /\ query = <<>>

\* DuplicateFinderTab.__init__ (lines 2282-2288, 2389, 2394, 2468): no
\* folder, no thread, the three buttons disabled.
IdleTab ==
    /\ tab = [current_folder |-> FALSE, scan_btn |-> FALSE,
              cancel_btn |-> FALSE, delete_btn |-> FALSE,
              scanner_thread |-> 0, results |-> FALSE, checked |-> FALSE,
              timers |-> 0]
    /\ scanner_threads = <<>>
    /\ deletion_threads = <<>>
    /\ ui_queue = <<>>

InitCommon == InitShared /\ IdleSearch /\ IdleTab

InitIndexerLocals ==
    /\ batch = <<>> /\ total_files = 0
    /\ indexed_paths = {} /\ existing_paths = {}
    /\ new_files = <<>> /\ updated_files = <<>> /\ checked = 0

\* The variables of the tasks a behaviour does not follow.
IdleIndexer ==
    /\ force_full_index = FALSE /\ db_manager = "none"
    /\ timer_pending = FALSE
    /\ store = [p \in Paths |-> NoRow] /\ store0 = store
    /\ index = <<>>

\* No DuplicateGroup is being measured.
IdleGroup == group = [key |-> 0, files |-> <<>>] /\ wasted = 0

\* No explorer tab is followed.
IdleSnapshots ==
    /\ heap = <<>>
    /\ explorer = [file_index |-> 0, files |-> 0, search_index |-> -1,
                   force_reindex_btn |-> FALSE, delivered |-> 0]
    /\ handed = {}

IdleFast ==
    /\ use_size_filter = FALSE /\ file_map = <<>> /\ total_scanned = 0

IdleDeep ==
    /\ size_map = <<>> /\ files_to_hash = <<>> /\ hash_map = <<>>
    /\ hashIdx = 1 /\ hashed_count = 0

IdleDel ==
    /\ files_to_delete = <<>> /\ delIdx = 1
    /\ deleted_count = 0 /\ failed_count = 0

IdleDupLocals ==
    /\ use_size_filter = FALSE /\ case_sensitive = TRUE
    /\ file_map = <<>> /\ total_scanned = 0
    /\ size_map = <<>> /\ files_to_hash = <<>> /\ hash_map = <<>>
    /\ hashIdx = 1 /\ hashed_count = 0
    /\ files_to_delete = <<>> /\ delIdx = 1
    /\ deleted_count = 0 /\ failed_count = 0
    /\ norm_in = <<>> /\ norm_out = <<>> /\ IdleGroup

IdleDup == IdleDupLocals /\ IdleSnapshots

\* SystemIndexerThread(db_path, force_full_index).start(): lines 798-804.
InitIndexer ==
    /\ kind = "index"
    /\ pc = "run"
    /\ fs \in [Paths -> {Gone, File(3, 10)}]
    /\ store \in [Paths -> {NoRow, CachedRow}]
    /\ store0 = store
    /\ force_full_index \in BOOLEAN
    /\ db_manager = "none"
    /\ timer_pending = FALSE
    /\ index = <<>>
    /\ InitIndexerLocals

\* The state in which run() means incremental_update to start (lines
\* 818-824): the cache, large enough, served as self.index, and the thread's
\* store handle open.
InitIncremental(fileStates, rows) ==
    /\ kind = "increm"
    /\ pc = "iu_entry"
    /\ fs \in [Paths -> fileStates]
    /\ store \in [Paths -> rows]
    /\ Cardinality(get_indexed_paths(store)) > cache_threshold
    /\ store0 = store
    /\ force_full_index = FALSE
    /\ db_manager = "open"
    /\ timer_pending = FALSE
    /\ index = load_file_index(store)
    /\ InitIndexerLocals

Init == InitCommon /\ InitIndexer /\ IdleDup

InitIncr ==
    InitCommon /\ InitIncremental(IndexerFiles, {NoRow, CachedRow}) /\ IdleDup

(***************************************************************************)
(* The cancellation flag: stop() of every task (lines 1014, 1176, 1292,    *)
(* 1344) sets should_stop, from another thread, at any moment.             *)
(***************************************************************************)
Stop ==
    /\ pc \notin {"finished", "raised", "delete_selected", "returned"}
    /\ ~should_stop
    /\ should_stop' = TRUE
    /\ log' = Append(log, Stopped(pc))
    /\ UNCHANGED <<kind, pc, fs, faults, walkVars, idxVars, incVars, dupVars>>

(***************************************************************************)
(* SystemIndexerThread.run, lines 806-835.                                 *)
(***************************************************************************)
\* Lines 808-827: open the store, then serve the cache or start full_index.
\* A store error goes to the handler of line 829.
Run ==
    /\ pc = "run"
    /\ \E opened \in Outcomes, loaded \in Outcomes :
         IF ~opened
         THEN /\ faults' = faults + 1
              /\ log' = Append(log, Emit("error_occurred", "Database error"))
              /\ pc' = "run_finally"
              /\ UNCHANGED <<idxVars>>
         ELSE IF force_full_index
         THEN /\ opened /\ loaded
              /\ db_manager' = "open"
              /\ index' = <<>>
              /\ pc' = "fi_drive"
              /\ UNCHANGED <<faults, log, force_full_index, timer_pending, store,
                             store0, batch, total_files>>
         ELSE IF ~loaded
         THEN /\ faults' = faults + 1
              /\ db_manager' = "open"
              /\ index' = <<>>
              /\ log' = log \o <<Emit("progress", "Loading cached index..."),
                                 Emit("error_occurred", "Database error")>>
              /\ pc' = "run_finally"
              /\ UNCHANGED <<force_full_index, timer_pending, store, store0,
                             batch, total_files>>
         ELSE LET cached_files == load_file_index(store)
              IN  /\ db_manager' = "open"
                  /\ UNCHANGED <<faults, force_full_index, store, store0, batch,
                                 total_files>>
                  /\ IF Len(cached_files) > cache_threshold
                     THEN /\ index' = cached_files
                          /\ log' = log \o
                               <<Emit("progress", "Loading cached index..."),
                                 Emit("progress", "Loaded files from cache"),
                                 Emit("files_indexed", Len(cached_files))>>
                          /\ timer_pending' = TRUE
                          /\ pc' = "run_finally"
                     ELSE /\ index' = <<>>
                          /\ log' = Append(log,
                                 Emit("progress", "Loading cached index..."))
                          /\ timer_pending' = FALSE
                          /\ pc' = "fi_drive"
    /\ drive' = 1
    /\ UNCHANGED <<envVars, dupVars, should_stop, dirIdx, files, fileIdx, incVars>>

\* Lines 831-835: the finally block closes the thread's store handle; run
\* returns and the thread ends.
RunFinally ==
    /\ pc = "run_finally"
    /\ db_manager' = "none"
    /\ pc' = "finished"
    /\ UNCHANGED <<envVars, dupVars, should_stop, faults, log, walkVars, incVars,
                   force_full_index, timer_pending, store, store0, index, batch,
                   total_files>>

(***************************************************************************)
(* SystemIndexerThread.full_index, lines 837-899.                          *)
(***************************************************************************)
\* Lines 845-849: top of the drive loop.
FiDrive ==
    /\ pc = "fi_drive"
    /\ IF drive > Len(get_available_drives) \/ should_stop
       THEN /\ pc' = "fi_tail"
            /\ UNCHANGED <<log, dirIdx>>
       ELSE /\ pc' = "fi_dir"
            /\ dirIdx' = 1
            /\ log' = Append(log, Emit("progress", "Indexing drive"))
    /\ UNCHANGED <<envVars, dupVars, should_stop, faults, drive, files, fileIdx,
                   idxVars, incVars>>

\* Lines 852-860: top of the os.walk loop.
FiDir ==
    /\ pc = "fi_dir"
    /\ IF dirIdx > Len(DirsOfDrive(drive)) \/ should_stop
       THEN /\ pc' = "fi_drive"
            /\ drive' = drive + 1
            /\ UNCHANGED <<files, fileIdx>>
       ELSE /\ pc' = "fi_file"
            /\ files' = Listing(DirsOfDrive(drive)[dirIdx])
            /\ fileIdx' = 1
            /\ UNCHANGED drive
    /\ UNCHANGED <<envVars, dupVars, should_stop, faults, log, dirIdx, idxVars, incVars>>

\* Lines 862-864: top of the file loop.
FiFile ==
    /\ pc = "fi_file"
    /\ IF fileIdx > Len(files) \/ should_stop
       THEN /\ pc' = "fi_dir"
            /\ dirIdx' = dirIdx + 1
       ELSE /\ pc' = "fi_visit"
            /\ UNCHANGED dirIdx
    /\ UNCHANGED <<envVars, dupVars, should_stop, faults, log, drive, files, fileIdx,
                   idxVars, incVars>>

\* Lines 866-893: one file.  A stat error skips the file (line 889); a store
\* error is no OSError, so it leaves the walk for the handler of line 892,
\* which reports it and lets the drive loop go on.
FiVisit ==
    /\ pc = "fi_visit"
    /\ LET p == files[fileIdx]
           entry == FileEntry(p)
           batch1 == Append(batch, entry)
       IN  \E statOk \in Outcomes, saved \in Outcomes :
             IF ~statOk
             THEN /\ faults' = faults + 1
                  /\ log' = Append(log, Visit(p))
                  /\ pc' = "fi_file"
                  /\ fileIdx' = fileIdx + 1
                  /\ UNCHANGED <<index, batch, total_files, store, drive>>
             ELSE /\ index' = Append(index, entry)
                  /\ total_files' = total_files + 1
                  /\ IF Len(batch1) >= batch_size
                     THEN IF saved
                          THEN /\ store' = save_file_index(store, batch1)
                               /\ batch' = <<>>
                               /\ log' = log \o
                                    <<Visit(p), Save(PathsOf(batch1)),
                                      Emit("files_indexed", total_files + 1)>>
                               /\ pc' = "fi_file"
                               /\ fileIdx' = fileIdx + 1
                               /\ UNCHANGED <<faults, drive>>
                          ELSE /\ faults' = faults + 1
                               /\ batch' = batch1
                               /\ log' = log \o
                                    <<Visit(p), SaveFailed,
                                      Emit("error_occurred", "Error indexing drive")>>
                               /\ pc' = "fi_drive"
                               /\ drive' = drive + 1
                               /\ UNCHANGED <<store, fileIdx>>
                     ELSE /\ saved
                          /\ batch' = batch1
                          /\ log' = Append(log, Visit(p))
                          /\ pc' = "fi_file"
                          /\ fileIdx' = fileIdx + 1
                          /\ UNCHANGED <<faults, store, drive>>
    /\ UNCHANGED <<envVars, dupVars, should_stop, dirIdx, files, force_full_index,
                   db_manager, timer_pending, store0, incVars>>

\* Lines 895-899: the last batch and the completion event.  A store error
\* here reaches run's handler (line 829).
FiTail ==
    /\ pc = "fi_tail"
    /\ \E saved \in Outcomes :
         IF batch # <<>> /\ ~saved
         THEN /\ faults' = faults + 1
              /\ log' = log \o <<SaveFailed,
                                 Emit("error_occurred", "Database error")>>
              /\ UNCHANGED <<store>>
         ELSE /\ saved
              /\ store' = save_file_index(store, batch)
              /\ log' = log \o
                   (IF batch # <<>> THEN <<Save(PathsOf(batch))>> ELSE <<>>) \o
                   (IF ~should_stop
                    THEN <<Emit("indexing_complete", total_files)>> ELSE <<>>)
              /\ UNCHANGED faults
    /\ pc' = "run_finally"
    /\ UNCHANGED <<envVars, dupVars, should_stop, walkVars, force_full_index, db_manager,
                   timer_pending, store0, index, batch, total_files, incVars>>

\* Line 824: QTimer.singleShot(500, lambda: self.incremental_update()).  The
\* timer belongs to the indexer thread, whose run() never starts an event
\* loop, so the callback is delivered, if at all, only once run() has
\* returned through its finally block.
TimerCallback ==
    /\ pc = "finished"
    /\ timer_pending
    /\ timer_pending' = FALSE
    /\ pc' = "iu_entry"
    /\ UNCHANGED <<envVars, dupVars, should_stop, faults, log, walkVars, incVars,
                   force_full_index, db_manager, store, store0, index, batch,
                   total_files>>

(***************************************************************************)
(* SystemIndexerThread.incremental_update, lines 901-997.                  *)
(***************************************************************************)
\* ReplaceFirst that appends the new entry and keeps the old one.
ReplaceFirst_KeepsOld(entries, p, e) == Append(entries, e)

\* The first entry of `entries` whose path is p, replaced by e (lines
\* 970-973).
RECURSIVE ReplaceFirst(_, _, _)
ReplaceFirst(entries, p, e) ==
    IF entries = <<>> THEN <<>>
    ELSE IF Head(entries).path = p THEN <<e>> \o Tail(entries)
    ELSE <<Head(entries)>> \o ReplaceFirst(Tail(entries), p, e)

Abs(x) == IF x < 0 THEN -x ELSE x

\* Changed without the comparison: every indexed file counts as changed.
Changed_Always(p, cached_info) == TRUE

\* Changed with the tolerance counted in: one second apart counts as changed.
Changed_FromOneSecond(p, cached_info) ==
    \/ fs[p].size # cached_info.size
    \/ Abs(fs[p].mtime - cached_info.modified) >= mtime_tolerance

\* Lines 956-957: the cached row no longer describes the file.
Changed(p, cached_info) ==
    \/ fs[p].size # cached_info.size
    \/ Abs(fs[p].mtime - cached_info.modified) > mtime_tolerance

\* Lines 903-914: without a store handle the method returns at once; with
\* one it reads the indexed paths.  A store error leaves the method: it has
\* no handler of its own.
IuEntry ==
    /\ pc = "iu_entry"
    /\ IF db_manager = "none"
       THEN /\ pc' = "finished"
            /\ UNCHANGED <<faults, log, drive, incVars>>
       ELSE \E read \in Outcomes :
              IF read
              THEN /\ indexed_paths' = get_indexed_paths(store)
                   /\ existing_paths' = {}
                   /\ new_files' = <<>>
                   /\ updated_files' = <<>>
                   /\ checked' = 0
                   /\ drive' = 1
                   /\ log' = Append(log, Emit("progress", "Checking for changes..."))
                   /\ pc' = "iu_drive"
                   /\ UNCHANGED faults
              ELSE /\ faults' = faults + 1
                   /\ log' = Append(log, Emit("progress", "Checking for changes..."))
                   /\ pc' = "raised"
                   /\ UNCHANGED <<drive, incVars>>
    /\ UNCHANGED <<envVars, dupVars, should_stop, dirIdx, files, fileIdx, idxVars>>

\* Lines 916-918: top of the drive loop.
IuDrive ==
    /\ pc = "iu_drive"
    /\ IF drive > Len(get_available_drives) \/ should_stop
       THEN /\ pc' = "iu_tail"
            /\ UNCHANGED dirIdx
       ELSE /\ pc' = "iu_dir"
            /\ dirIdx' = 1
    /\ UNCHANGED <<envVars, dupVars, should_stop, faults, log, drive, files, fileIdx,
                   idxVars, incVars>>

\* Lines 921-929: top of the os.walk loop.
IuDir ==
    /\ pc = "iu_dir"
    /\ IF dirIdx > Len(DirsOfDrive(drive)) \/ should_stop
       THEN /\ pc' = "iu_drive"
            /\ drive' = drive + 1
            /\ UNCHANGED <<files, fileIdx>>
       ELSE /\ pc' = "iu_file"
            /\ files' = Listing(DirsOfDrive(drive)[dirIdx])
            /\ fileIdx' = 1
            /\ UNCHANGED drive
    /\ UNCHANGED <<envVars, dupVars, should_stop, faults, log, dirIdx, idxVars, incVars>>

\* Lines 931-933: top of the file loop.
IuFile ==
    /\ pc = "iu_file"
    /\ IF fileIdx > Len(files) \/ should_stop
       THEN /\ pc' = "iu_dir"
            /\ dirIdx' = dirIdx + 1
       ELSE /\ pc' = "iu_visit"
            /\ UNCHANGED dirIdx
    /\ UNCHANGED <<envVars, dupVars, should_stop, faults, log, drive, files, fileIdx,
                   idxVars, incVars>>

\* What the walk does with a file it could stat (lines 941-977): the new
\* values of <<index, new_files, updated_files>>.
IuRecord(p) ==
    LET entry == FileEntry(p)
    IN  IF p \notin indexed_paths
        THEN <<Append(index, entry), Append(new_files, entry), updated_files>>
        ELSE IF store[p].ex /\ Changed(p, store[p])
        THEN <<ReplaceFirst(index, p, entry), new_files, Append(updated_files, entry)>>
        ELSE <<index, new_files, updated_files>>

\* Lines 935-983: one file.  The path counts as existing before it is
\* stat'ed.  A stat error skips the file (line 979); a store error in
\* get_file_info is no OSError, so it leaves the walk of this drive for the
\* handler of line 982, which says nothing and goes to the next drive.
IuVisit ==
    /\ pc = "iu_visit"
    /\ LET p == files[fileIdx]
           rec == IuRecord(p)
       IN  /\ existing_paths' = existing_paths \cup {p}
           /\ \E statOk \in Outcomes, read \in Outcomes :
                IF ~statOk
                THEN /\ faults' = faults + 1
                     /\ log' = Append(log, Visit(p))
                     /\ pc' = "iu_file"
                     /\ fileIdx' = fileIdx + 1
                     /\ UNCHANGED <<index, new_files, updated_files, checked, drive>>
                ELSE IF p \in indexed_paths /\ ~read
                THEN /\ faults' = faults + 1
                     /\ log' = Append(log, Visit(p))
                     /\ pc' = "iu_drive"
                     /\ drive' = drive + 1
                     /\ UNCHANGED <<index, new_files, updated_files, checked, fileIdx>>
                ELSE /\ read
                     /\ index' = rec[1]
                     /\ new_files' = rec[2]
                     /\ updated_files' = rec[3]
                     /\ checked' = checked + 1
                     /\ log' = log \o <<Visit(p)>> \o
                          (IF (checked + 1) % check_progress_every = 0
                           THEN <<Emit("progress", "Checked files...")>> ELSE <<>>)
                     /\ pc' = "iu_file"
                     /\ fileIdx' = fileIdx + 1
                     /\ UNCHANGED <<faults, drive>>
    /\ UNCHANGED <<envVars, dupVars, should_stop, dirIdx, files, indexed_paths,
                   force_full_index, db_manager, timer_pending, store, store0,
                   batch, total_files>>

\* Lines 985-997: save what is new, save what changed, prune, report.  Any
\* of the three store calls may raise, and the error leaves the method.
\* failAt is the call that raises (0: none).
IuTail ==
    /\ pc = "iu_tail"
    /\ \E failAt \in 0 .. 3 :
         LET st1 == IF failAt = 1 THEN store ELSE save_file_index(store, new_files)
             st2 == IF failAt \in {1, 2} THEN st1 ELSE save_file_index(st1, updated_files)
             st3 == IF failAt \in {1, 2, 3} THEN st2
                    ELSE remove_deleted_files(st2, existing_paths)
             l1  == IF new_files = <<>> THEN <<>>
                    ELSE IF failAt = 1 THEN <<SaveFailed>>
                    ELSE <<Save(PathsOf(new_files)), Emit("progress", "Added new files")>>
             l2  == IF updated_files = <<>> \/ failAt = 1 THEN <<>>
                    ELSE IF failAt = 2 THEN <<SaveFailed>>
                    ELSE <<Save(PathsOf(updated_files)), Emit("progress", "Updated files")>>
             l3  == IF failAt # 0 THEN <<>>
                    ELSE <<Prune(get_indexed_paths(st2) \ existing_paths)>> \o
                         (IF ~should_stop
                          THEN <<Emit("indexing_complete", Len(index))>> ELSE <<>>)
         IN  /\ failAt # 0 => faults < MaxFaults
             /\ failAt = 1 => new_files # <<>>
             /\ failAt = 2 => updated_files # <<>>
             /\ store' = st3
             /\ log' = log \o l1 \o l2 \o l3
             /\ faults' = IF failAt = 0 THEN faults ELSE faults + 1
             /\ pc' = IF failAt = 0 THEN "finished" ELSE "raised"
    /\ UNCHANGED <<envVars, dupVars, should_stop, walkVars, force_full_index, db_manager,
                   timer_pending, store0, index, batch, total_files, incVars>>

(***************************************************************************)
(* FastDuplicateScannerThread.normalize_filename, lines 1145-1174.  A file *)
(* name is a sequence of characters.                                       *)
(***************************************************************************)
Digits == {"0", "1", "2", "3", "4", "5", "6", "7", "8", "9"}

Whitespace == {" "}

\* str.lower() of one character, for the letters the model's names use.
LowerChar(c) ==
    CASE c = "C" -> "c"
      [] c = "O" -> "o"
      [] c = "P" -> "p"
      [] c = "Y" -> "y"
      [] c = "R" -> "r"
      [] c = "A" -> "a"
      [] OTHER   -> c

LowerStr(t) == [i \in 1 .. Len(t) |-> LowerChar(t[i])]

\* os.path.splitext: the extension starts at the last dot, unless only dots
\* precede it.
splitext(filename) ==
    LET dots == {i \in 1 .. Len(filename) : filename[i] = "."}
        last == CHOOSE i \in dots : \A j \in dots : j <= i
    IN  IF dots # {} /\ \E j \in 1 .. last - 1 : filename[j] # "."
        THEN <<SubSeq(filename, 1, last - 1), SubSeq(filename, last, Len(filename))>>
        ELSE <<filename, <<>>>>

\* Pieces of a regular expression: one character of a class, or a run of
\* them (* or +).  Classes hold lower-case characters: the patterns are
\* used with re.IGNORECASE.
One(cs)  == [q |-> "one", cs |-> cs]
Star(cs) == [q |-> "star", cs |-> cs]
Plus(cs) == [q |-> "plus", cs |-> cs]

Copy == <<One({"c"}), One({"o"}), One({"p"}), One({"y"})>>

\* The ordered pattern list of lines 1157-1164; each ends in $.
patterns ==
    << <<Star(Whitespace), One({"("}), Plus(Digits), One({")"})>>,
       <<Star(Whitespace), One({"-"}), Star(Whitespace)>> \o Copy,
       <<Star(Whitespace)>> \o Copy,
       <<One({"_"})>> \o Copy,
       <<Star(Whitespace), One({"-"}), Star(Whitespace), Plus(Digits)>>,
       <<One({"_"}), Plus(Digits)>> >>

\* Whether the whole of t matches the pattern.
RECURSIVE Matches(_, _)
Matches(pat, t) ==
    IF pat = <<>> THEN t = <<>>
    ELSE LET h == Head(pat)
             first == t # <<>> /\ LowerChar(Head(t)) \in h.cs
         IN  CASE h.q = "one"  -> IF first THEN Matches(Tail(pat), Tail(t)) ELSE FALSE
               [] h.q = "star" -> IF Matches(Tail(pat), t) THEN TRUE
                                  ELSE IF first THEN Matches(pat, Tail(t)) ELSE FALSE
               [] h.q = "plus" -> IF first
                                  THEN Matches(<<Star(h.cs)>> \o Tail(pat), Tail(t))
                                  ELSE FALSE

\* re.sub(pattern + '$', '', name): the leftmost match that reaches the end
\* of the name is removed.
re_sub(pat, name) ==
    LET starts == {i \in 1 .. Len(name) : Matches(pat, SubSeq(name, i, Len(name)))}
    IN  IF starts = {} THEN name ELSE SubSeq(name, 1, Min(starts) - 1)

\* Lines 1166-1167: the patterns applied in order, each to the result of
\* the one before.
RECURSIVE ApplyPatterns(_, _)
ApplyPatterns(pats, name) ==
    IF pats = <<>> THEN name
    ELSE CHOOSE r \in {ApplyPatterns(Tail(pats), n) :
                          n \in {re_sub(Head(pats), name)}} : TRUE

normalize_filename(filename, sensitive) ==
    CHOOSE result \in UNION {
        { IF sensitive THEN name \o parts[2]
          ELSE LowerStr(name) \o LowerStr(parts[2]) :
            name \in {ApplyPatterns(patterns, parts[1])} } :
        parts \in {splitext(filename)} } : TRUE

\* File names.
Report        == <<"r", "e", "p", "o", "r", "t">>
Txt           == <<".", "t", "x", "t">>
ReportTxt     == Report \o Txt
ReportParen1  == Report \o <<" ", "(", "1", ")">> \o Txt
ReportDashCopy == Report \o <<" ", "-", " ", "C", "o", "p", "y">> \o Txt
ReportUnderCopy == Report \o <<"_", "c", "o", "p", "y">> \o Txt
Report2Txt    == Report \o <<"2">> \o Txt

\* "report (1) - Copy.txt": the copy of a numbered copy.
ReportParen1DashCopy ==
    Report \o <<" ", "(", "1", ")", " ", "-", " ", "C", "o", "p", "y">> \o Txt

\* The pieces from which further names are put together.
NameTokens ==
    { <<"a">>, <<" ", "(", "1", ")">>, <<" ", "-", " ", "C", "o", "p", "y">>,
      <<" ", "C", "o", "p", "y">>, <<"_", "c", "o", "p", "y">>,
      <<" ", "-", " ", "1">>, <<"_", "2">>, <<".", "t">> }

RECURSIVE NamesOfTokens(_)
NamesOfTokens(n) ==
    IF n = 0 THEN {<<>>}
    ELSE LET shorter == NamesOfTokens(n - 1)
         IN  shorter \cup {s \o t : s \in shorter, t \in NameTokens}

NameInputs ==
    {ReportTxt, ReportParen1, ReportDashCopy, ReportUnderCopy, Report2Txt,
     ReportParen1DashCopy}
        \cup (NamesOfTokens(MaxNameTokens) \ {<<>>})

\* normalize_filename called with a file name, on either platform.
InitNorm ==
    /\ kind = "norm"
    /\ pc = "nf_call"
    /\ fs = [p \in Paths |-> Gone]
    /\ norm_in \in NameInputs
    /\ norm_out = <<>>
    /\ IdleGroup /\ IdleSnapshots
    /\ case_sensitive \in BOOLEAN

\* Lines 1145-1174.
NormalizeFilename ==
    /\ pc = "nf_call"
    /\ norm_out' = normalize_filename(norm_in, case_sensitive)
    /\ pc' = "nf_done"
    /\ UNCHANGED <<envVars, should_stop, faults, log, walkVars, indexerVars,
                   fastVars, deepVars, delVars, norm_in, group, wasted, snapVars>>

\* The key that came out is normalized again, as the name of another file.
NormalizeKey ==
    /\ pc = "nf_done"
    /\ norm_out # norm_in
    /\ norm_in' = norm_out
    /\ pc' = "nf_call"
    /\ UNCHANGED <<envVars, should_stop, faults, log, walkVars, indexerVars,
                   fastVars, deepVars, delVars, norm_out, group, wasted, snapVars>>

(***************************************************************************)
(* DuplicateGroup, lines 595-617.                                          *)
(***************************************************************************)
RECURSIVE SumSeq(_)
SumSeq(xs) == IF xs = <<>> THEN 0 ELSE Head(xs) + SumSeq(Tail(xs))

\* sorted(xs): the list in ascending order.
RECURSIVE sorted(_)
sorted(xs) ==
    IF xs = <<>> THEN <<>>
    ELSE LET i == CHOOSE k \in 1 .. Len(xs) :
                     /\ \A j \in 1 .. Len(xs) : xs[k] <= xs[j]
                     /\ \A j \in 1 .. k - 1 : xs[j] # xs[k]
         IN  <<xs[i]>> \o sorted(SubSeq(xs, 1, i - 1) \o SubSeq(xs, i + 1, Len(xs)))

\* sorted(xs, reverse=True): the list in descending order.
sorted_reverse(xs) ==
    LET asc == sorted(xs)
    IN  [i \in 1 .. Len(asc) |-> asc[Len(asc) + 1 - i]]

SizesOf(fls) == [i \in 1 .. Len(fls) |-> fls[i].size]

\* Lines 599-601.
total_size(g) == SumSeq(SizesOf(g.files))

\* The sum of all sizes but the smallest.
wasted_space_KeepsSmallest(g) ==
    IF Len(g.files) <= 1 THEN 0
    ELSE SumSeq(Tail(sorted(SizesOf(g.files))))

\* Lines 607-613.
wasted_space(g) ==
    IF Len(g.files) <= 1 THEN 0
    ELSE LET sizes == sorted_reverse(SizesOf(g.files))
         IN  SumSeq(Tail(sizes))

\* The sizes of the files of a group.
GroupSizes == {0, 100, 200, 300}

\* DuplicateGroup(key, files) of up to MaxGroupLen files: file i of the
\* group has path i.
InitGroup ==
    /\ kind = "group"
    /\ pc = "ws_call"
    /\ fs = [p \in Paths |-> Gone]
    /\ \E n \in 0 .. MaxGroupLen : \E sz \in [1 .. n -> GroupSizes] :
          group = [key |-> 1,
                   files |-> [i \in 1 .. n |->
                                [path |-> i, size |-> sz[i], modified |-> 10,
                                 hash |-> -1]]]
    /\ wasted = 0

\* g.wasted_space(), as on_scan_complete calls it (line 2599).
WastedSpace ==
    /\ pc = "ws_call"
    /\ wasted' = wasted_space(group)
    /\ pc' = "ws_done"
    /\ UNCHANGED <<envVars, should_stop, faults, log, walkVars, indexerVars,
                   fastVars, deepVars, delVars, norm_in, norm_out, group, snapVars>>

(***************************************************************************)
(* The duplicate scanners.                                                 *)
(***************************************************************************)
\* The names of the files under the scanned root.  Paths 1 and 2 share
\* directory 1, path 3 has directory 2 to itself, the rest lie in
\* directory 3.
NameOf(p) ==
    CASE p = 1 -> ReportTxt
      [] p = 2 -> ReportParen1
      [] p = 3 -> ReportTxt
      [] p = 4 -> ReportDashCopy
      [] p = 5 -> ReportUnderCopy
      [] OTHER -> Report2Txt

\* DuplicateFile(name, path, size, modified, hash), lines 1108-1113 and
\* 1248-1254; hash -1 is None.
DuplicateFile(p, h) ==
    [path |-> p, size |-> fs[p].size, modified |-> fs[p].mtime, hash |-> h]

\* A defaultdict(list), kept as its items in insertion order:
\* d[key].append(item).
defaultdict_append(d, key, item) ==
    IF \E i \in 1 .. Len(d) : d[i].key = key
    THEN [i \in 1 .. Len(d) |->
            IF d[i].key = key
            THEN [key |-> key, files |-> Append(d[i].files, item)]
            ELSE d[i]]
    ELSE Append(d, [key |-> key, files |-> <<item>>])

\* d[k] = v of a dict, kept as a function.
dict_set(d, k, v) == [x \in DOMAIN d \cup {k} |-> IF x = k THEN v ELSE d[x]]

EmptyDict == [x \in {} |-> <<>>]

\* Lines 1131-1136: the groups of more than one file, stored under the
\* first part of their key.
RECURSIVE fast_duplicates(_, _)
fast_duplicates(items, acc) ==
    IF items = <<>> THEN acc
    ELSE LET it == Head(items)
         IN  fast_duplicates(Tail(items),
                 IF Len(it.files) > 1 THEN dict_set(acc, it.key[1], it.files)
                 ELSE acc)

\* FastDuplicateScannerThread(root_folder, use_size_filter).start(): lines
\* 1075-1080.
InitFast(fileStates) ==
    /\ kind = "fast"
    /\ pc = "fs_start"
    /\ fs \in [ScanPaths -> fileStates]
    /\ use_size_filter \in BOOLEAN
    /\ case_sensitive \in BOOLEAN
    /\ file_map = <<>>
    /\ total_scanned = 0

\* Lines 1084-1089.
FsStart ==
    /\ pc = "fs_start"
    /\ file_map' = <<>>
    /\ total_scanned' = 0
    /\ dirIdx' = 1
    /\ log' = Append(log, Emit("progress", "Scanning files..."))
    /\ pc' = "fs_dir"
    /\ UNCHANGED <<envVars, should_stop, faults, drive, files, fileIdx,
                   indexerVars, use_size_filter, case_sensitive, deepVars,
                   delVars, normVars>>

\* Lines 1091-1095: top of the os.walk loop; a set flag returns.
FsDir ==
    /\ pc = "fs_dir"
    /\ IF dirIdx > Len(RootDirs)
       THEN /\ pc' = "fs_tail"
            /\ UNCHANGED <<files, fileIdx>>
       ELSE IF should_stop
       THEN /\ pc' = "finished"
            /\ UNCHANGED <<files, fileIdx>>
       ELSE /\ pc' = "fs_file"
            /\ files' = Listing(RootDirs[dirIdx])
            /\ fileIdx' = 1
    /\ UNCHANGED <<envVars, should_stop, faults, log, drive, dirIdx,
                   indexerVars, dupVars>>

\* FsFile without the check of line 1098.
FsFile_NoStopCheck ==
    /\ pc = "fs_file"
    /\ IF fileIdx > Len(files)
       THEN /\ pc' = "fs_dir"
            /\ dirIdx' = dirIdx + 1
       ELSE /\ pc' = "fs_visit"
            /\ UNCHANGED dirIdx
    /\ UNCHANGED <<envVars, should_stop, faults, log, drive, files, fileIdx,
                   indexerVars, dupVars>>

\* Lines 1097-1099: top of the file loop; a set flag returns.
FsFile ==
    /\ pc = "fs_file"
    /\ IF fileIdx > Len(files)
       THEN /\ pc' = "fs_dir"
            /\ dirIdx' = dirIdx + 1
       ELSE IF should_stop
       THEN /\ pc' = "finished"
            /\ UNCHANGED dirIdx
       ELSE /\ pc' = "fs_visit"
            /\ UNCHANGED dirIdx
    /\ UNCHANGED <<envVars, should_stop, faults, log, drive, files, fileIdx,
                   indexerVars, dupVars>>

\* Lines 1115-1119.
fast_key(p) ==
    LET normalized == normalize_filename(NameOf(p), case_sensitive)
    IN  IF use_size_filter THEN <<normalized, fs[p].size>> ELSE <<normalized>>

\* Lines 1101-1128: one file; a stat error skips it.
FsVisit ==
    /\ pc = "fs_visit"
    /\ LET p == files[fileIdx]
       IN  \E statOk \in Outcomes :
             IF ~statOk
             THEN /\ faults' = faults + 1
                  /\ log' = Append(log, Visit(p))
                  /\ UNCHANGED <<file_map, total_scanned>>
             ELSE /\ file_map' = defaultdict_append(file_map, fast_key(p),
                                                    DuplicateFile(p, -1))
                  /\ total_scanned' = total_scanned + 1
                  /\ log' = log \o <<Visit(p)>> \o
                       (IF (total_scanned + 1) % scan_progress_every = 0
                        THEN <<Emit("files_scanned", total_scanned + 1)>> ELSE <<>>)
                  /\ UNCHANGED faults
    /\ fileIdx' = fileIdx + 1
    /\ pc' = "fs_file"
    /\ UNCHANGED <<envVars, should_stop, drive, dirIdx, files, indexerVars,
                   use_size_filter, case_sensitive, deepVars, delVars, normVars>>

\* Lines 1130-1140.
FsTail ==
    /\ pc = "fs_tail"
    /\ log' = log \o
         (IF ~should_stop
          THEN <<Emit("files_scanned", total_scanned),
                 Emit("scan_complete", fast_duplicates(file_map, EmptyDict))>>
          ELSE <<>>)
    /\ pc' = "finished"
    /\ UNCHANGED <<envVars, should_stop, faults, walkVars, indexerVars, dupVars>>

(***************************************************************************)
(* DeepDuplicateScannerThread.run, lines 1199-1275.                        *)
(***************************************************************************)
\* A digest that depends on where the file is, not on what it holds.
hash_file_ByPath(p) == 200 + p

\* hash_file (lines 1277-1290): the digest of a file's content.  Different
\* contents have different digests.
hash_file(p) == 100 + fs[p].content

\* The paths of every size bucket, those of a single file too.
RECURSIVE paths_to_hash_AllBuckets(_)
paths_to_hash_AllBuckets(items) ==
    IF items = <<>> THEN <<>>
    ELSE Head(items).files \o paths_to_hash_AllBuckets(Tail(items))

\* Line 1235: the paths of every size bucket of more than one file.
RECURSIVE paths_to_hash(_)
paths_to_hash(items) ==
    IF items = <<>> THEN <<>>
    ELSE (IF Len(Head(items).files) > 1 THEN Head(items).files ELSE <<>>)
         \o paths_to_hash(Tail(items))

\* Every digest kept, those of a single file too.
deep_duplicates_KeepsSingles(items, acc) ==
    [h \in DOMAIN acc \cup {items[i].key : i \in 1 .. Len(items)} |->
        IF \E i \in 1 .. Len(items) : items[i].key = h
        THEN (CHOOSE it \in {items[i] : i \in 1 .. Len(items)} : it.key = h).files
        ELSE acc[h]]

\* Lines 1266-1269: the digests of more than one file.
RECURSIVE deep_duplicates(_, _)
deep_duplicates(items, acc) ==
    IF items = <<>> THEN acc
    ELSE LET it == Head(items)
         IN  deep_duplicates(Tail(items),
                 IF Len(it.files) > 1 THEN dict_set(acc, it.key, it.files)
                 ELSE acc)

\* DeepDuplicateScannerThread(root_folder, hash_algorithm).start(): lines
\* 1193-1197.
InitDeep(fileStates) ==
    /\ kind = "deep"
    /\ pc = "ds_start"
    /\ fs \in [ScanPaths -> fileStates]
    /\ IdleDeep
    /\ total_scanned = 0

\* Lines 1201-1206.
DsStart ==
    /\ pc = "ds_start"
    /\ size_map' = <<>>
    /\ total_scanned' = 0
    /\ dirIdx' = 1
    /\ log' = Append(log, Emit("progress", "Scanning files by size..."))
    /\ pc' = "ds_dir"
    /\ UNCHANGED <<envVars, should_stop, faults, drive, files, fileIdx,
                   indexerVars, use_size_filter, case_sensitive, file_map,
                   files_to_hash, hash_map, hashIdx, hashed_count, delVars,
                   normVars>>

\* Lines 1208-1212: top of the os.walk loop; a set flag returns.
DsDir ==
    /\ pc = "ds_dir"
    /\ IF dirIdx > Len(RootDirs)
       THEN /\ pc' = "ds_prepare"
            /\ UNCHANGED <<files, fileIdx>>
       ELSE IF should_stop
       THEN /\ pc' = "finished"
            /\ UNCHANGED <<files, fileIdx>>
       ELSE /\ pc' = "ds_file"
            /\ files' = Listing(RootDirs[dirIdx])
            /\ fileIdx' = 1
    /\ UNCHANGED <<envVars, should_stop, faults, log, drive, dirIdx,
                   indexerVars, dupVars>>

\* Lines 1214-1216: top of the file loop; a set flag returns.
DsFile ==
    /\ pc = "ds_file"
    /\ IF fileIdx > Len(files)
       THEN /\ pc' = "ds_dir"
            /\ dirIdx' = dirIdx + 1
       ELSE IF should_stop
       THEN /\ pc' = "finished"
            /\ UNCHANGED dirIdx
       ELSE /\ pc' = "ds_visit"
            /\ UNCHANGED dirIdx
    /\ UNCHANGED <<envVars, should_stop, faults, log, drive, files, fileIdx,
                   indexerVars, dupVars>>

\* Phase 1 without the test of line 1225: empty files are bucketed too.
DsVisit_BucketsEmpty ==
    /\ pc = "ds_visit"
    /\ LET p == files[fileIdx]
       IN  \E statOk \in Outcomes :
             IF ~statOk
             THEN /\ faults' = faults + 1
                  /\ log' = Append(log, Visit(p))
                  /\ UNCHANGED <<size_map, total_scanned>>
             ELSE /\ size_map' = defaultdict_append(size_map, fs[p].size, p)
                  /\ total_scanned' = total_scanned + 1
                  /\ log' = log \o <<Visit(p)>> \o
                       (IF (total_scanned + 1) % scan_progress_every = 0
                        THEN <<Emit("files_scanned", total_scanned + 1)>> ELSE <<>>)
                  /\ UNCHANGED faults
    /\ fileIdx' = fileIdx + 1
    /\ pc' = "ds_file"
    /\ UNCHANGED <<envVars, should_stop, drive, dirIdx, files, indexerVars,
                   use_size_filter, case_sensitive, file_map, files_to_hash,
                   hash_map, hashIdx, hashed_count, delVars, normVars>>

\* Lines 1218-1231: one file of phase 1; a stat error skips it, an empty
\* file is counted but not bucketed.
DsVisit ==
    /\ pc = "ds_visit"
    /\ LET p == files[fileIdx]
       IN  \E statOk \in Outcomes :
             IF ~statOk
             THEN /\ faults' = faults + 1
                  /\ log' = Append(log, Visit(p))
                  /\ UNCHANGED <<size_map, total_scanned>>
             ELSE /\ size_map' = IF fs[p].size > 0
                                 THEN defaultdict_append(size_map, fs[p].size, p)
                                 ELSE size_map
                  /\ total_scanned' = total_scanned + 1
                  /\ log' = log \o <<Visit(p)>> \o
                       (IF (total_scanned + 1) % scan_progress_every = 0
                        THEN <<Emit("files_scanned", total_scanned + 1)>> ELSE <<>>)
                  /\ UNCHANGED faults
    /\ fileIdx' = fileIdx + 1
    /\ pc' = "ds_file"
    /\ UNCHANGED <<envVars, should_stop, drive, dirIdx, files, indexerVars,
                   use_size_filter, case_sensitive, file_map, files_to_hash,
                   hash_map, hashIdx, hashed_count, delVars, normVars>>

\* Lines 1233-1238.
DsPrepare ==
    /\ pc = "ds_prepare"
    /\ hash_map' = <<>>
    /\ files_to_hash' = paths_to_hash(size_map)
    /\ hashed_count' = 0
    /\ hashIdx' = 1
    /\ log' = Append(log, Emit("progress", "Hashing potential duplicates..."))
    /\ pc' = "ds_hash"
    /\ UNCHANGED <<envVars, should_stop, faults, walkVars, indexerVars,
                   fastVars, size_map, delVars, normVars>>

\* Lines 1240-1242: top of the hashing loop; a set flag returns.
DsHash ==
    /\ pc = "ds_hash"
    /\ pc' = IF hashIdx > Len(files_to_hash) THEN "ds_tail"
             ELSE IF should_stop THEN "finished"
             ELSE "ds_hash_file"
    /\ UNCHANGED <<envVars, should_stop, faults, log, walkVars, indexerVars,
                   dupVars>>

\* One candidate, with a failure that ends the scan with an error event.
DsHashFile_FailureAborts ==
    /\ pc = "ds_hash_file"
    /\ LET p == files_to_hash[hashIdx]
           file_hash == hash_file(p)
       IN  \E hashed \in Outcomes :
             IF ~hashed
             THEN /\ faults' = faults + 1
                  /\ log' = log \o <<[op |-> "hash_failed", sig |-> "", arg |-> p],
                                      Emit("error_occurred", "Deep scan error")>>
                  /\ pc' = "finished"
                  /\ UNCHANGED <<hash_map, hashed_count>>
             ELSE /\ hash_map' = defaultdict_append(hash_map, file_hash,
                                                    DuplicateFile(p, file_hash))
                  /\ hashed_count' = hashed_count + 1
                  /\ log' = log \o <<[op |-> "hash", sig |-> "", arg |-> p]>> \o
                       (IF (hashed_count + 1) % hash_progress_every = 0
                        THEN <<Emit("progress", "Hashed files...")>> ELSE <<>>)
                  /\ pc' = "ds_hash"
                  /\ UNCHANGED faults
    /\ hashIdx' = hashIdx + 1
    /\ UNCHANGED <<envVars, should_stop, walkVars, indexerVars, fastVars,
                   size_map, files_to_hash, delVars, normVars>>

\* Lines 1244-1263: one candidate; any exception of hash_file or os.stat
\* drops the file and goes on.
DsHashFile ==
    /\ pc = "ds_hash_file"
    /\ LET p == files_to_hash[hashIdx]
           file_hash == hash_file(p)
       IN  \E hashed \in Outcomes :
             IF ~hashed
             THEN /\ faults' = faults + 1
                  /\ log' = Append(log, [op |-> "hash_failed", sig |-> "", arg |-> p])
                  /\ UNCHANGED <<hash_map, hashed_count>>
             ELSE /\ hash_map' = defaultdict_append(hash_map, file_hash,
                                                    DuplicateFile(p, file_hash))
                  /\ hashed_count' = hashed_count + 1
                  /\ log' = log \o <<[op |-> "hash", sig |-> "", arg |-> p]>> \o
                       (IF (hashed_count + 1) % hash_progress_every = 0
                        THEN <<Emit("progress", "Hashed files...")>> ELSE <<>>)
                  /\ UNCHANGED faults
    /\ hashIdx' = hashIdx + 1
    /\ pc' = "ds_hash"
    /\ UNCHANGED <<envVars, should_stop, walkVars, indexerVars, fastVars,
                   size_map, files_to_hash, delVars, normVars>>

\* Lines 1265-1272.
DsTail ==
    /\ pc = "ds_tail"
    /\ log' = log \o
         (IF ~should_stop
          THEN <<Emit("scan_complete", deep_duplicates(hash_map, EmptyDict))>>
          ELSE <<>>)
    /\ pc' = "finished"
    /\ UNCHANGED <<envVars, should_stop, faults, walkVars, indexerVars, dupVars>>

(***************************************************************************)
(* DuplicateFinderTab.delete_selected, lines 2731-2758, and                *)
(* FileDeletionThread.run, lines 1314-1342.                                *)
(***************************************************************************)
\* get_selected_files (lines 2716-2729): the file_data of the checked items,
\* in tree order.  Any set of items may be checked.
get_selected_files ==
    { [i \in 1 .. Len(SortedSeq(S)) |-> DuplicateFile(SortedSeq(S)[i], -1)] :
        S \in SUBSET ScanPaths }

InitDelete ==
    /\ InitCommon /\ IdleIndexer /\ InitIndexerLocals /\ IdleDup
    /\ kind = "delete"
    /\ pc = "delete_selected"
    /\ fs \in [ScanPaths -> {Gone, File(1, 10)}]

\* delete_selected without the check of the reply (lines 2747-2748).
DeleteSelected_NoConfirm ==
    /\ pc = "delete_selected"
    /\ \E selected \in get_selected_files :
         IF selected = <<>>
         THEN /\ log' = Append(log, Selected(selected, ""))
              /\ pc' = "returned"
              /\ UNCHANGED files_to_delete
         ELSE \E reply \in {"Yes", "No"} :
                /\ log' = log \o <<Selected(selected, reply), Started(selected)>>
                /\ files_to_delete' = selected
                /\ pc' = "del_loop"
    /\ UNCHANGED <<envVars, should_stop, faults, walkVars, indexerVars,
                   fastVars, deepVars, delIdx, deleted_count, failed_count,
                   normVars>>

\* Lines 2731-2758: nothing checked, or any reply but Yes, returns; else a
\* FileDeletionThread is made of the selection (lines 1309-1312) and started.
DeleteSelected ==
    /\ pc = "delete_selected"
    /\ \E selected \in get_selected_files :
         IF selected = <<>>
         THEN /\ log' = Append(log, Selected(selected, ""))
              /\ pc' = "returned"
              /\ UNCHANGED files_to_delete
         ELSE \E reply \in {"Yes", "No"} :
                IF reply # "Yes"
                THEN /\ log' = Append(log, Selected(selected, reply))
                     /\ pc' = "returned"
                     /\ UNCHANGED files_to_delete
                ELSE /\ log' = log \o <<Selected(selected, reply), Started(selected)>>
                     /\ files_to_delete' = selected
                     /\ pc' = "del_loop"
    /\ UNCHANGED <<envVars, should_stop, faults, walkVars, indexerVars,
                   fastVars, deepVars, delIdx, deleted_count, failed_count,
                   normVars>>

\* Lines 1320-1322: top of the loop; a set flag breaks.
DelLoop ==
    /\ pc = "del_loop"
    /\ pc' = IF delIdx > Len(files_to_delete) \/ should_stop
             THEN "del_tail" ELSE "del_attempt"
    /\ UNCHANGED <<envVars, should_stop, faults, log, walkVars, indexerVars,
                   dupVars>>

\* What one attempt can come to: the path is missing (line 1325), is not
\* writable (line 1329), os.remove raises (line 1336), or the file is removed.
AttemptOutcomes(p) ==
    IF ~fs[p].ex THEN {"missing"}
    ELSE {"ok"} \cup (IF faults < MaxFaults THEN {"readonly", "raise"} ELSE {})

\* failed_count without line 1326: a missing path is not counted.
failed_after_MissingUncounted(outcome) ==
    IF outcome \in {"ok", "missing"} THEN failed_count ELSE failed_count + 1

\* Lines 1326, 1330 and 1337: every attempt that removes nothing is counted.
failed_after(outcome) ==
    IF outcome = "ok" THEN failed_count ELSE failed_count + 1

\* Lines 1327 and 1331: `continue` skips the emit of line 1339.
progress_emitted(outcome) == outcome \in {"ok", "raise"}

\* Lines 1324-1339: one file of the list.
DelAttempt ==
    /\ pc = "del_attempt"
    /\ LET p == files_to_delete[delIdx].path
       IN  \E outcome \in AttemptOutcomes(p) :
             /\ fs' = IF outcome = "ok" THEN [fs EXCEPT ![p] = Gone] ELSE fs
             /\ deleted_count' = IF outcome = "ok" THEN deleted_count + 1
                                 ELSE deleted_count
             /\ failed_count' = failed_after(outcome)
             /\ faults' = IF outcome \in {"readonly", "raise"}
                          THEN faults + 1 ELSE faults
             /\ log' = log \o <<Attempt(p, outcome)>> \o
                  (IF progress_emitted(outcome)
                   THEN <<Emit("progress", <<delIdx, Len(files_to_delete)>>)>>
                   ELSE <<>>)
    /\ delIdx' = delIdx + 1
    /\ pc' = "del_loop"
    /\ UNCHANGED <<kind, should_stop, walkVars, indexerVars, fastVars,
                   deepVars, files_to_delete, normVars>>

\* Lines 1341-1342.
DelTail ==
    /\ pc = "del_tail"
    /\ log' = IF ~should_stop
              THEN Append(log, Emit("deletion_complete",
                                    <<deleted_count, failed_count>>))
              ELSE log
    /\ pc' = "finished"
    /\ UNCHANGED <<envVars, should_stop, faults, walkVars, indexerVars,
                   dupVars>>

(***************************************************************************)
(* FileSearchThread, lines 1022-1060.                                      *)
(***************************************************************************)
\* The records a search runs over: FileEntry(name, path, ...), of which the
\* search reads the name and the path.
SearchEntry(name, path) == [name |-> name, path |-> path]

SearchEntries ==
    { SearchEntry(<<"R", "a">>, <<"c", "/", "R", "a">>),
      SearchEntry(<<"a", "r">>, <<"p", "/", "a", "r">>),
      SearchEntry(<<"a">>, <<"C", "/", "a">>),
      SearchEntry(<<"A">>, <<"p", "/", "A">>),
      SearchEntry(<<"y">>, <<"p", "/", "y">>) }

\* Indexes of different records, in any order.
NoRepeat(ix) == \A i, j \in 1 .. Len(ix) : i # j => ix[i] # ix[j]

RECURSIVE IndexesOver(_, _)
IndexesOver(entries, n) ==
    IF n = 0 THEN {<<>>}
    ELSE LET shorter == IndexesOver(entries, n - 1)
             longer == {Append(ix, e) : ix \in shorter, e \in entries}
         IN  shorter \cup {ix \in longer : NoRepeat(ix)}

SearchQueries == { <<"a">>, <<"R">>, <<"r", "a">> }

FolderFilters == { <<>>, <<"c">>, <<"P">> }

\* Python's `sub in text` on strings.
Contains(sub, text) ==
    \E i \in 0 .. Len(text) - Len(sub) : SubSeq(text, i + 1, i + Len(sub)) = sub

\* Lines 1042-1043: the name holds the query and, if a folder filter is
\* given, the path holds the filter; both without regard to case.
search_matches(th, entry) ==
    /\ Contains(th.query, LowerStr(entry.name))
    /\ th.folder_filter = <<>> \/ Contains(th.folder_filter, LowerStr(entry.path))

\* FileSearchThread.__init__ (lines 1028-1033) followed by start().
FileSearchThread(ix, q, folder_filter) ==
    [index |-> ix, query |-> LowerStr(q),
     folder_filter |-> LowerStr(folder_filter),
     should_stop |-> FALSE, pc |-> "s_loop", i |-> 1, results |-> <<>>]

SearchEmit(t, sig, arg) == [op |-> "emit", sig |-> sig, arg |-> arg, thread |-> t]
SearchStarted(t)        == [op |-> "start", sig |-> "", arg |-> 0, thread |-> t]
SearchStopped(t)        == [op |-> "stop", sig |-> "", arg |-> 0, thread |-> t]

\* A search thread constructed with any index, query and folder filter.
InitSearch ==
    /\ InitShared /\ IdleIndexer /\ InitIndexerLocals /\ IdleDup /\ IdleTab
    /\ kind = "search"
    /\ pc = "ui_idle"
    /\ fs = [p \in ScanPaths |-> Gone]
    /\ file_index \in IndexesOver(SearchEntries, MaxIndexLen)
    /\ query = <<>>
    /\ search_thread = 1
    /\ \E q \in SearchQueries, f \in FolderFilters :
          search_threads = <<FileSearchThread(file_index, q, f)>>

\* What a step of a search thread leaves alone.
searchFrame == <<kind, pc, should_stop, fs, faults, walkVars, idxVars, incVars,
                 fastVars, deepVars, delVars, normVars, tabVars>>

\* Lines 1058-1060: stop(), called by whoever holds the thread.
SearchStop(t) ==
    /\ search_threads[t].pc # "finished"
    /\ ~search_threads[t].should_stop
    /\ search_threads' = [search_threads EXCEPT ![t].should_stop = TRUE]
    /\ log' = Append(log, SearchStopped(t))
    /\ UNCHANGED <<searchFrame, file_index, search_thread, query>>

\* Lines 1039-1041: top of the loop; a set flag breaks.
SearchLoop(t) ==
    LET th == search_threads[t]
    IN  /\ th.pc = "s_loop"
        /\ search_threads' = [search_threads EXCEPT ![t].pc =
              IF th.i > Len(th.index) \/ th.should_stop
              THEN "s_flush" ELSE "s_entry"]
        /\ UNCHANGED <<searchFrame, log, file_index, search_thread, query>>

\* Lines 1043-1048: one record; a batch that became full is emitted as a
\* copy and the list cleared.
SearchVisit(t) ==
    LET th == search_threads[t]
        entry == th.index[th.i]
        appended == IF search_matches(th, entry)
                    THEN Append(th.results, entry) ELSE th.results
        full == search_matches(th, entry)
                /\ Len(appended) % search_batch_size = 0
    IN  /\ th.pc = "s_entry"
        /\ search_threads' = [search_threads EXCEPT
              ![t].results = IF full THEN <<>> ELSE appended,
              ![t].i = th.i + 1,
              ![t].pc = "s_loop"]
        /\ log' = IF full
                  THEN Append(log, SearchEmit(t, "results_ready", appended))
                  ELSE log
        /\ UNCHANGED <<searchFrame, file_index, search_thread, query>>

\* SearchFlush without the test of the flag in line 1050.
SearchFlush_IgnoresStop(t) ==
    LET th == search_threads[t]
    IN  /\ th.pc = "s_flush"
        /\ search_threads' = [search_threads EXCEPT ![t].pc = "s_total"]
        /\ log' = IF th.results # <<>>
                  THEN Append(log, SearchEmit(t, "results_ready", th.results))
                  ELSE log
        /\ UNCHANGED <<searchFrame, file_index, search_thread, query>>

\* Lines 1050-1051: what is left is emitted unless the flag is set.
SearchFlush(t) ==
    LET th == search_threads[t]
    IN  /\ th.pc = "s_flush"
        /\ search_threads' = [search_threads EXCEPT ![t].pc = "s_total"]
        /\ log' = IF th.results # <<>> /\ ~th.should_stop
                  THEN Append(log, SearchEmit(t, "results_ready", th.results))
                  ELSE log
        /\ UNCHANGED <<searchFrame, file_index, search_thread, query>>

\* Line 1054: the records whose name holds the query.
search_total(th) ==
    Cardinality({i \in 1 .. Len(th.index) :
                    Contains(th.query, LowerStr(th.index[i].name))})

\* Lines 1053-1055: the total is emitted unless the flag is set.
SearchTotal(t) ==
    LET th == search_threads[t]
    IN  /\ th.pc = "s_total"
        /\ search_threads' = [search_threads EXCEPT ![t].pc = "finished"]
        /\ log' = IF ~th.should_stop
                  THEN Append(log, SearchEmit(t, "search_complete", search_total(th)))
                  ELSE log
        /\ UNCHANGED <<searchFrame, file_index, search_thread, query>>

(***************************************************************************)
(* DuplicateFinderTab, lines 2279-2799: the user's actions on the tab, the *)
(* slots its threads' signals are queued for, and the threads themselves   *)
(* reduced to their start, their flag and their end.                       *)
(***************************************************************************)
InitTab ==
    /\ InitShared /\ IdleIndexer /\ InitIndexerLocals /\ IdleDup /\ IdleSearch
    /\ IdleTab
    /\ kind = "duptab"
    /\ pc = "ui_idle"
    /\ fs = [p \in ScanPaths |-> Gone]

\* What an action of the tab leaves alone.
tabFrame == <<kind, should_stop, fs, faults, walkVars, idxVars, incVars,
              fastVars, deepVars, delVars, normVars, searchVars>>

\* A signal queued for the tab's thread, with the thread that emitted it.
Signal(t, sig, arg) == [sig |-> sig, arg |-> arg, thread |-> t]

\* The threads for which isRunning() holds: run() has not returned.
Running(threads) == {t \in DOMAIN threads : threads[t].pc # "finished"}

\* Lines 2519-2525: the folder dialog; a chosen folder enables Start Scan.
BrowseFolder ==
    /\ pc = "ui_idle"
    /\ \E folder \in {"", "folder"} :
          tab' = IF folder # ""
                 THEN [tab EXCEPT !.current_folder = TRUE, !.scan_btn = TRUE]
                 ELSE tab
    /\ UNCHANGED <<tabFrame, pc, log, scanner_threads, deletion_threads, ui_queue>>

\* Lines 2796-2799.
reset_ui(tb) == [tb EXCEPT !.scan_btn = tb.current_folder, !.cancel_btn = FALSE]

\* Lines 2780-2794.
clear_results(tb) ==
    [tb EXCEPT !.results = FALSE, !.checked = FALSE, !.delete_btn = FALSE]

\* start_scan, lines 2527-2558, from the tab tb: without a folder it
\* returns; else the results are cleared and a scanner thread of the chosen
\* mode is made, put in self.scanner_thread and started.
start_scan(tb) ==
    IF ~tb.current_folder
    THEN /\ tab' = tb
         /\ UNCHANGED <<scanner_threads, log>>
    ELSE /\ Len(scanner_threads) < MaxScans
         /\ \E mode \in {"fast", "deep"} :
               scanner_threads' = Append(scanner_threads,
                   [pc |-> "running", should_stop |-> FALSE, mode |-> mode,
                    duplicates |-> FALSE])
         /\ tab' = [clear_results(tb) EXCEPT
                      !.scan_btn = FALSE, !.cancel_btn = TRUE,
                      !.scanner_thread = Len(scanner_threads) + 1]
         /\ log' = Append(log, [op |-> "scan_start", sig |-> "",
                                arg |-> Running(scanner_threads)])

\* The user clicks Start Scan.
ClickStartScan ==
    /\ pc = "ui_idle"
    /\ tab.scan_btn
    /\ start_scan(tab)
    /\ UNCHANGED <<tabFrame, pc, deletion_threads, ui_queue>>

\* QTimer.singleShot(500, self.start_scan) of line 2778 fires.
RescanTimer ==
    /\ pc = "ui_idle"
    /\ tab.timers > 0
    /\ start_scan([tab EXCEPT !.timers = tab.timers - 1])
    /\ UNCHANGED <<tabFrame, pc, deletion_threads, ui_queue>>

\* cancel_scan has returned for the scan of thread t (0: no thread).
Cancelled(t) == [op |-> "cancelled", sig |-> "", arg |-> t]

\* on_scan_complete has been invoked with the result of thread t.
ScanCompleteSlot(t) == [op |-> "on_scan_complete", sig |-> "", arg |-> t]

\* Lines 2560-2564: Cancel sets the flag of self.scanner_thread and waits.
CancelScan ==
    /\ pc = "ui_idle"
    /\ tab.cancel_btn
    /\ IF tab.scanner_thread # 0
       THEN /\ scanner_threads' =
                 [scanner_threads EXCEPT ![tab.scanner_thread].should_stop = TRUE]
            /\ pc' = "cancel_wait"
            /\ UNCHANGED <<tab, log>>
       ELSE /\ tab' = reset_ui(tab)
            /\ log' = Append(log, Cancelled(0))
            /\ UNCHANGED <<pc, scanner_threads>>
    /\ UNCHANGED <<tabFrame, deletion_threads, ui_queue>>

\* Lines 2564-2567: wait() returns when the thread has ended; the controls
\* are reset and the status reads "Scan cancelled".
CancelWait ==
    /\ pc = "cancel_wait"
    /\ scanner_threads[tab.scanner_thread].pc = "finished"
    /\ tab' = reset_ui(tab)
    /\ pc' = "ui_idle"
    /\ log' = Append(log, Cancelled(tab.scanner_thread))
    /\ UNCHANGED <<tabFrame, scanner_threads, deletion_threads, ui_queue>>

\* A scanner thread reaches the end of its work (lines 1082-1136,
\* 1199-1270): it reads its flag (lines 1136, 1271) and, the flag clear,
\* goes on to emit the groups it found; the flag set, run() returns with no
\* signal; an exception is reported with error_occurred (lines 1140-1141,
\* 1274-1275).
ScannerEnds(t) ==
    /\ scanner_threads[t].pc = "running"
    /\ \E outcome \in (IF scanner_threads[t].should_stop THEN {"cancelled"}
                       ELSE {"none", "groups"})
                      \cup (IF faults < MaxFaults THEN {"error"} ELSE {}) :
          /\ scanner_threads' =
                CASE outcome = "cancelled" ->
                        [scanner_threads EXCEPT ![t].pc = "finished"]
                  [] outcome = "error" ->
                        [scanner_threads EXCEPT ![t].pc = "finished"]
                  [] outcome = "none" ->
                        [scanner_threads EXCEPT ![t].pc = "emit",
                                                ![t].duplicates = FALSE]
                  [] outcome = "groups" ->
                        [scanner_threads EXCEPT ![t].pc = "emit",
                                                ![t].duplicates = TRUE]
          /\ ui_queue' = IF outcome = "error"
                         THEN Append(ui_queue, Signal(t, "error_occurred", FALSE))
                         ELSE ui_queue
          /\ faults' = IF outcome = "error" THEN faults + 1 ELSE faults
    /\ UNCHANGED <<kind, pc, should_stop, fs, walkVars, idxVars, incVars,
                   fastVars, deepVars, delVars, normVars, searchVars,
                   log, tab, deletion_threads>>

\* Lines 1137-1138, 1272: the flag was clear when it was read; scan_complete
\* is emitted, queued for the tab's thread, and run() returns.
ScannerEmits(t) ==
    /\ scanner_threads[t].pc = "emit"
    /\ scanner_threads' = [scanner_threads EXCEPT ![t].pc = "finished"]
    /\ ui_queue' = Append(ui_queue,
                          Signal(t, "scan_complete", scanner_threads[t].duplicates))
    /\ UNCHANGED <<kind, pc, should_stop, fs, faults, walkVars, idxVars, incVars,
                   fastVars, deepVars, delVars, normVars, searchVars,
                   log, tab, deletion_threads>>

\* Lines 2655-2714: the user checks or unchecks items of the results tree;
\* update_selection_count enables Delete when any item is checked.
CheckItems ==
    /\ pc = "ui_idle"
    /\ tab.results
    /\ \E any \in BOOLEAN :
          tab' = [tab EXCEPT !.checked = any, !.delete_btn = any]
    /\ UNCHANGED <<tabFrame, pc, log, scanner_threads, deletion_threads, ui_queue>>

\* Lines 2731-2758 on the tab: with checked items and the reply Yes, both
\* buttons are disabled and a deletion thread is started.
ClickDeleteSelected ==
    /\ pc = "ui_idle"
    /\ tab.delete_btn
    /\ \E reply \in {"Yes", "No"} :
          IF ~tab.checked \/ reply # "Yes"
          THEN UNCHANGED <<tab, deletion_threads, log>>
          ELSE /\ Len(deletion_threads) < MaxDeletions
               /\ tab' = [tab EXCEPT !.delete_btn = FALSE, !.scan_btn = FALSE]
               /\ deletion_threads' = Append(deletion_threads, [pc |-> "running"])
               /\ log' = Append(log, [op |-> "delete_start", sig |-> "",
                                      arg |-> Running(scanner_threads)])
    /\ UNCHANGED <<tabFrame, pc, scanner_threads, ui_queue>>

\* Lines 1314-1342: a deletion thread, which nobody stops, ends with
\* deletion_complete.
DeletionEnds(d) ==
    /\ deletion_threads[d].pc = "running"
    /\ deletion_threads' = [deletion_threads EXCEPT ![d].pc = "finished"]
    /\ ui_queue' = Append(ui_queue, Signal(d, "deletion_complete", FALSE))
    /\ UNCHANGED <<tabFrame, pc, log, tab, scanner_threads>>

\* Lines 2577-2622.
on_scan_complete(tb, duplicates) ==
    IF ~duplicates THEN reset_ui(tb)
    ELSE [reset_ui(tb) EXCEPT !.results = TRUE]

\* Lines 2624-2628.
on_error(tb) == reset_ui(tb)

\* Lines 2765-2778.
on_delete_complete(tb) ==
    [tb EXCEPT !.scan_btn = TRUE,
               !.timers = IF tb.current_folder THEN tb.timers + 1 ELSE tb.timers]

\* The event loop of the tab's thread delivers the oldest queued signal to
\* its slot.
DeliverSignal ==
    /\ pc = "ui_idle"
    /\ ui_queue # <<>>
    /\ LET s == Head(ui_queue)
       IN  tab' = CASE s.sig = "scan_complete" -> on_scan_complete(tab, s.arg)
                    [] s.sig = "error_occurred" -> on_error(tab)
                    [] s.sig = "deletion_complete" -> on_delete_complete(tab)
    /\ log' = IF Head(ui_queue).sig = "scan_complete"
              THEN Append(log, ScanCompleteSlot(Head(ui_queue).thread))
              ELSE log
    /\ ui_queue' = Tail(ui_queue)
    /\ UNCHANGED <<tabFrame, pc, scanner_threads, deletion_threads>>

(***************************************************************************)
(* FileExplorerTab.perform_search, lines 1931-1951.                        *)
(***************************************************************************)
\* str.strip() of the search box's text.
RECURSIVE strip(_)
strip(text) ==
    IF text = <<>> THEN text
    ELSE IF Head(text) = " " THEN strip(Tail(text))
    ELSE IF text[Len(text)] = " " THEN strip(SubSeq(text, 1, Len(text) - 1))
    ELSE text

\* What the user may have typed when the search timer fires.
SearchInputs == { <<>>, <<" ">>, <<"a">>, <<" ", "R">> }

\* The tab's file_index: empty before the first indexing result, or the
\* indexer's records.
InitSearchTab ==
    /\ InitShared /\ IdleIndexer /\ InitIndexerLocals /\ IdleDup /\ IdleTab
    /\ kind = "searchtab"
    /\ pc = "ui_idle"
    /\ fs = [p \in ScanPaths |-> Gone]
    /\ file_index \in {ix \in IndexesOver(SearchEntries, MaxIndexLen) :
                          Len(ix) \in {0, 3}}
    /\ query = <<>>
    /\ search_thread = 0
    /\ search_threads = <<>>

IsRunning(t) == search_threads[t].pc # "finished"

\* FileTableModel.set_files (lines 773-777) as the search tab calls it: the
\* model shows a list the caller has just built, the list shown before is
\* referenced by nothing else and is dropped.  explorer.files = 0 stands for
\* a table nobody looks at.
set_files(fls) ==
    heap' = IF explorer.files = 0 THEN heap
            ELSE [heap EXCEPT ![explorer.files] = fls]

\* Lines 1931-1945: an empty query empties the table and returns (1935-1937),
\* an empty index returns (1939-1940) and leaves the table alone; otherwise a
\* search that is still running is told to stop.  The table is not touched
\* on the way to a new search.
PerformSearch ==
    /\ pc = "ui_idle"
    /\ Len(search_threads) < MaxSearches
    /\ \E text \in SearchInputs :
          IF strip(text) = <<>>
          THEN /\ set_files(<<>>)
               /\ UNCHANGED <<pc, query, search_threads, log>>
          ELSE IF file_index = <<>>
          THEN UNCHANGED <<pc, query, search_threads, log, heap>>
          ELSE /\ query' = strip(text)
               /\ UNCHANGED heap
               /\ IF search_thread # 0 /\ IsRunning(search_thread)
                  THEN /\ search_threads' = [search_threads EXCEPT ![search_thread].should_stop = TRUE]
                       /\ log' = Append(log, SearchStopped(search_thread))
                       /\ pc' = "ps_wait"
                  ELSE /\ pc' = "ps_start"
                       /\ UNCHANGED <<search_threads, log>>
    /\ UNCHANGED <<kind, should_stop, fs, faults, walkVars, idxVars, incVars,
                   fastVars, deepVars, delVars, norm_in, norm_out, group,
                   wasted, explorer, handed, tabVars, file_index,
                   search_thread>>

\* PsWait without waiting: wait() returns at once.
PsWait_ReturnsAtOnce ==
    /\ pc = "ps_wait"
    /\ pc' = "ps_start"
    /\ UNCHANGED <<kind, should_stop, fs, faults, walkVars, idxVars, incVars,
                   fastVars, deepVars, delVars, normVars, tabVars,
                   searchVars, log>>

\* Line 1946: wait() returns when the old thread has ended.
PsWait ==
    /\ pc = "ps_wait"
    /\ ~IsRunning(search_thread)
    /\ pc' = "ps_start"
    /\ UNCHANGED <<kind, should_stop, fs, faults, walkVars, idxVars, incVars,
                   fastVars, deepVars, delVars, normVars, tabVars,
                   searchVars, log>>

\* Lines 1948-1951: the new thread, over the tab's index and with no
\* folder filter, is started.
PsStart ==
    /\ pc = "ps_start"
    /\ search_threads' = Append(search_threads,
                                FileSearchThread(file_index, query, <<>>))
    /\ search_thread' = Len(search_threads) + 1
    /\ log' = Append(log, SearchStarted(Len(search_threads) + 1))
    /\ pc' = "ui_idle"
    /\ UNCHANGED <<kind, should_stop, fs, faults, walkVars, idxVars, incVars,
                   fastVars, deepVars, delVars, normVars, tabVars,
                   file_index, query>>

\* The history entry of a batch that on_search_results put in the table.
SearchShown(t, results) == [op |-> "shown", sig |-> "", arg |-> results, thread |-> t]

\* The results_ready emissions the tab's slot has not run for yet: a signal
\* emitted by a search thread is queued for the GUI thread, in emission order
\* (connection at line 1949).
PendingResults ==
    {k \in (explorer.delivered + 1) .. Len(log) :
        log[k].op = "emit" /\ log[k].sig = "results_ready"}

\* on_search_results (lines 1953-1958), run by the GUI event loop for the
\* oldest queued batch: the batch is added to whatever the table shows.  The
\* slot does not look at which thread sent the batch.
OnSearchResultsDelivered ==
    /\ pc = "ui_idle"
    /\ explorer.files # 0
    /\ PendingResults # {}
    /\ LET k == CHOOSE m \in PendingResults : \A n \in PendingResults : m <= n
           current_files == heap[explorer.files] \o log[k].arg
       IN  /\ set_files(current_files)
           /\ explorer' = [explorer EXCEPT !.delivered = k]
           /\ log' = Append(log, SearchShown(log[k].thread, log[k].arg))
    /\ UNCHANGED <<kind, pc, should_stop, fs, faults, walkVars, idxVars, incVars,
                   fastVars, deepVars, delVars, norm_in, norm_out, group,
                   wasted, handed, tabVars, searchVars>>

\* The search tab with its table: FileExplorerTab.__init__ shows an empty
\* FileTableModel (lines 1752, 1815-1816).
InitSearchShow ==
    /\ InitShared /\ IdleIndexer /\ InitIndexerLocals /\ IdleDupLocals /\ IdleTab
    /\ heap = << <<>> >>
    /\ explorer = [file_index |-> 0, files |-> 1, search_index |-> -1,
                   force_reindex_btn |-> FALSE, delivered |-> 0]
    /\ handed = {}
    /\ kind = "searchtab"
    /\ pc = "ui_idle"
    /\ fs = [p \in ScanPaths |-> Gone]
    /\ file_index \in {ix \in IndexesOver(SearchEntries, MaxIndexLen) :
                          Len(ix) \in {0, 3}}
    /\ query = <<>>
    /\ search_thread = 0
    /\ search_threads = <<>>

(***************************************************************************)
(* Specifications.                                                         *)
(***************************************************************************)
\* The indexer thread as the explorer tab starts it (lines 1865-1870,
\* 1889-1894).
Next ==
    \/ Stop
    \/ Run
    \/ RunFinally
    \/ TimerCallback
    \/ FiDrive
    \/ FiDir
    \/ FiFile
    \/ FiVisit
    \/ FiTail
    \/ IuEntry

Spec == Init /\ [][Next]_vars

\* incremental_update entered with the store handle open.
NextIncr ==
    \/ Stop
    \/ IuEntry
    \/ IuDrive
    \/ IuDir
    \/ IuFile
    \/ IuVisit
    \/ IuTail

SpecIncr == InitIncr /\ [][NextIncr]_vars

\* The indexer in either of its scans: the thread from its start, and the
\* incremental scan from the state run() means it to start in.
InitIndexerScans ==
    \/ Init
    \/ /\ InitCommon /\ IdleDup
       /\ InitIncremental({Gone, File(1, 10), File(3, 10)}, {NoRow, CachedRow})

NextIndexerScans ==
    \/ Stop
    \/ Run
    \/ RunFinally
    \/ TimerCallback
    \/ FiDrive
    \/ FiDir
    \/ FiFile
    \/ FiVisit
    \/ FiTail
    \/ IuEntry
    \/ IuDrive
    \/ IuDir
    \/ IuFile
    \/ IuVisit
    \/ IuTail

SpecIndexerScans == InitIndexerScans /\ [][NextIndexerScans]_vars

(***************************************************************************)
(* FileExplorerTab and the snapshot lists, lines 1846-1997.  Python lists  *)
(* are objects: `heap` holds the lists made on the tab's side, by number;  *)
(* reference 0 is the list the present indexer thread has as self.index,   *)
(* whose content is `index`.  `handed` remembers every list that became    *)
(* the tab's file_index or a search thread's index, with the content it    *)
(* had then.                                                               *)
(***************************************************************************)
ListAt(ref) == IF ref = 0 THEN index ELSE heap[ref]

Hand(ref) == [ref |-> ref, items |-> ListAt(ref)]

\* The next signal of the indexer thread that the tab has a slot for and
\* has not yet been delivered: its place in the history, 0 if there is none.
NextIndexerSignal ==
    LET pending == { k \in explorer.delivered + 1 .. Len(log) :
                       /\ log[k].op = "emit"
                       /\ log[k].sig \in {"files_indexed", "indexing_complete"} }
    IN  IF pending = {} THEN 0 ELSE Min(pending)

\* on_files_indexed without the copy: the thread's own list becomes the
\* tab's file_index.
on_files_indexed_NoCopy(k) ==
    /\ explorer' = [explorer EXCEPT !.delivered = k, !.file_index = 0]
    /\ handed' = handed \cup {Hand(0)}
    /\ UNCHANGED heap

\* on_files_indexed (lines 1900-1904): file_index becomes a copy of the
\* thread's list as it is when the slot runs.
on_files_indexed(k) ==
    /\ heap' = Append(heap, index)
    /\ explorer' = [explorer EXCEPT !.delivered = k, !.file_index = Len(heap) + 1]
    /\ handed' = handed \cup {[ref |-> Len(heap) + 1, items |-> index]}

\* on_indexing_complete (lines 1906-1920): file_index becomes the thread's
\* list itself, and the re-index button is enabled.
on_indexing_complete(k) ==
    /\ explorer' = [explorer EXCEPT !.delivered = k, !.file_index = 0,
                                    !.force_reindex_btn = TRUE]
    /\ handed' = handed \cup {Hand(0)}
    /\ UNCHANGED heap

\* The event loop of the GUI thread delivers the next queued signal.
DeliverIndexerSignal ==
    /\ kind = "explorer"
    /\ NextIndexerSignal # 0
    /\ LET k == NextIndexerSignal
       IN  IF log[k].sig = "files_indexed"
           THEN Len(heap) < MaxLists /\ on_files_indexed(k)
           ELSE on_indexing_complete(k)
    /\ UNCHANGED <<envVars, pc, should_stop, faults, log, walkVars, idxVars, incVars,
                   fastVars, deepVars, delVars, norm_in, norm_out, group, wasted,
                   searchVars, tabVars>>

\* force_full_reindex (lines 1873-1894), the user answering Yes: a new
\* SystemIndexerThread, with a list of its own, takes the place of the old
\* one.  The button is enabled only by on_indexing_complete and at start-up
\* without a thread, so the old thread has emitted its last signal; its
\* list stays in the heap under a number of its own.
ForceFullReindex ==
    /\ kind = "explorer"
    /\ explorer.force_reindex_btn
    /\ pc \in {"none", "finished", "raised"}
    /\ Cardinality({k \in 1 .. Len(log) : log[k].op = "reindex"}) < MaxReindexes
    /\ LET old == Len(heap) + 1
           Moved(ref) == IF ref = 0 THEN old ELSE ref
       IN  /\ heap' = Append(heap, index)
           /\ explorer' = [explorer EXCEPT
                             !.force_reindex_btn = FALSE,
                             !.file_index = Moved(explorer.file_index),
                             !.files = Moved(explorer.files),
                             !.search_index = Moved(explorer.search_index)]
           /\ handed' = { [ref |-> Moved(h.ref), items |-> h.items] : h \in handed }
    /\ pc' = "run"
    /\ force_full_index' = TRUE
    /\ index' = <<>>
    /\ should_stop' = FALSE
    /\ db_manager' = "none"
    /\ timer_pending' = FALSE
    /\ batch' = <<>> /\ total_files' = 0
    /\ drive' = 1 /\ dirIdx' = 1 /\ files' = <<>> /\ fileIdx' = 1
    /\ log' = Append(log, Reindexed)
    /\ UNCHANGED <<envVars, faults, store, store0, incVars, fastVars, deepVars,
                   delVars, norm_in, norm_out, group, wasted, searchVars, tabVars>>

\* What the tab's own operations leave alone.
explorerFrame ==
    UNCHANGED <<envVars, pc, should_stop, faults, log, walkVars, idxVars, incVars,
                fastVars, deepVars, delVars, norm_in, norm_out, group, wasted,
                searchVars, tabVars, handed>>

\* perform_search (lines 1940-1951) with a query: the new FileSearchThread
\* is given the list file_index refers to.
GiveIndexToSearch ==
    /\ kind = "explorer"
    /\ ListAt(explorer.file_index) # <<>>
    /\ explorer' = [explorer EXCEPT !.search_index = explorer.file_index]
    /\ handed' = handed \cup {Hand(explorer.file_index)}
    /\ UNCHANGED <<envVars, pc, should_stop, faults, log, walkVars, idxVars, incVars,
                   fastVars, deepVars, delVars, norm_in, norm_out, group, wasted,
                   searchVars, tabVars, heap>>

\* on_search_results (lines 1953-1958): a copy of the displayed list,
\* extended with a batch of the search thread, becomes the displayed list.
\* A batch is modelled as the first record of the searched list.
OnSearchResults ==
    /\ kind = "explorer"
    /\ explorer.search_index # -1
    /\ Len(heap) < MaxLists
    /\ LET results == SubSeq(ListAt(explorer.search_index), 1, 1)
           current_files == ListAt(explorer.files) \o results
       IN  /\ heap' = Append(heap, current_files)
           /\ explorer' = [explorer EXCEPT !.files = Len(heap) + 1]
    /\ explorerFrame

\* show_all_files (lines 1964-1970): a slice of file_index is displayed.
ShowAllFiles ==
    /\ kind = "explorer"
    /\ ListAt(explorer.file_index) # <<>>
    /\ Len(heap) < MaxLists
    /\ heap' = Append(heap, ListAt(explorer.file_index))
    /\ explorer' = [explorer EXCEPT !.files = Len(heap) + 1]
    /\ explorerFrame

\* apply_filter (lines 1972-1998) with a file type: the matching records of
\* file_index, in a new list, are displayed.  The records of the modelled
\* type are those of size 2.
IsOfType(f) == f.size = 2

ApplyFilter ==
    /\ kind = "explorer"
    /\ Len(heap) < MaxLists
    /\ heap' = Append(heap, SelectSeq(ListAt(explorer.file_index), IsOfType))
    /\ explorer' = [explorer EXCEPT !.files = Len(heap) + 1]
    /\ explorerFrame

\* list.sort(key = path, reverse): the list in path order.
RECURSIVE sort_by_path(_)
sort_by_path(xs) ==
    IF xs = <<>> THEN <<>>
    ELSE LET i == CHOOSE k \in 1 .. Len(xs) :
                     /\ \A j \in 1 .. Len(xs) : xs[k].path <= xs[j].path
                     /\ \A j \in 1 .. k - 1 : xs[j].path # xs[k].path
         IN  <<xs[i]>> \o sort_by_path(SubSeq(xs, 1, i - 1) \o SubSeq(xs, i + 1, Len(xs)))

Reversed(xs) == [i \in 1 .. Len(xs) |-> xs[Len(xs) + 1 - i]]

\* FileTableModel.sort (lines 752-771), by path: sorts, in place, the list
\* the model holds.
SortTable ==
    /\ kind = "explorer"
    /\ explorer.files # 0
    /\ \E reverse \in BOOLEAN :
         LET now == heap[explorer.files]
             sorted_files == IF reverse THEN Reversed(sort_by_path(now))
                             ELSE sort_by_path(now)
         IN  /\ sorted_files # now
             /\ heap' = [heap EXCEPT ![explorer.files] = sorted_files]
    /\ UNCHANGED explorer
    /\ explorerFrame

\* FileExplorerTab.__init__ (lines 1752-1758) and
\* start_auto_indexing_if_enabled (lines 1846-1870): either the indexer
\* thread is started, or, with background processing disabled, the cache is
\* loaded into file_index and no thread runs.  The store is empty or holds
\* a row for every path; the first file is of the type apply_filter shows.
InitExplorer ==
    /\ kind = "explorer"
    /\ fs = [p \in Paths |-> IF p = 1 THEN File(3, 10) ELSE File(1, 10)]
    /\ store \in {[p \in Paths |-> NoRow], [p \in Paths |-> CachedRow]}
    /\ store0 = store
    /\ force_full_index = FALSE
    /\ db_manager = "none"
    /\ timer_pending = FALSE
    /\ index = <<>>
    /\ InitIndexerLocals
    /\ \/ /\ pc = "run"
          /\ heap = << <<>>, <<>> >>
          /\ explorer = [file_index |-> 1, files |-> 2, search_index |-> -1,
                         force_reindex_btn |-> FALSE, delivered |-> 0]
       \/ /\ pc = "none"
          /\ heap = << load_file_index(store), <<>> >>
          /\ explorer = [file_index |-> 1, files |-> 2, search_index |-> -1,
                         force_reindex_btn |-> load_file_index(store) # <<>>,
                         delivered |-> 0]
    /\ handed = {[ref |-> 1, items |-> heap[1]]}

InitSnapshots ==
    /\ InitCommon
    /\ IdleFast /\ case_sensitive = TRUE /\ IdleDeep /\ IdleDel
    /\ norm_in = <<>> /\ norm_out = <<>> /\ IdleGroup
    /\ InitExplorer

NextSnapshots ==
    \/ Run
    \/ RunFinally
    \/ TimerCallback
    \/ FiDrive
    \/ FiDir
    \/ FiFile
    \/ FiVisit
    \/ FiTail
    \/ IuEntry
    \/ DeliverIndexerSignal
    \/ ForceFullReindex
    \/ GiveIndexToSearch
    \/ OnSearchResults
    \/ ShowAllFiles
    \/ ApplyFilter
    \/ SortTable

SpecSnapshots == InitSnapshots /\ [][NextSnapshots]_vars

\* normalize_filename.
InitNormalize ==
    /\ InitCommon /\ IdleIndexer /\ InitIndexerLocals
    /\ IdleFast /\ IdleDeep /\ IdleDel
    /\ InitNorm

NextNorm ==
    \/ NormalizeFilename
    \/ NormalizeKey

SpecNorm == InitNormalize /\ [][NextNorm]_vars

\* DuplicateGroup.wasted_space.
InitWastedSpace ==
    /\ InitCommon /\ IdleIndexer /\ InitIndexerLocals
    /\ IdleFast /\ IdleDeep /\ IdleDel
    /\ case_sensitive = TRUE /\ norm_in = <<>> /\ norm_out = <<>>
    /\ IdleSnapshots
    /\ InitGroup

NextGroup ==
    \/ WastedSpace

SpecGroup == InitWastedSpace /\ [][NextGroup]_vars

\* The fast duplicate scan.
InitFastScan(fileStates) ==
    /\ InitCommon /\ IdleIndexer /\ InitIndexerLocals
    /\ IdleDeep /\ IdleDel /\ norm_in = <<>> /\ norm_out = <<>> /\ IdleGroup /\ IdleSnapshots
    /\ InitFast(fileStates)

NextFast ==
    \/ Stop
    \/ FsStart
    \/ FsDir
    \/ FsFile
    \/ FsVisit
    \/ FsTail

SpecFast == InitFastScan({Gone, File(1, 10), File(3, 10)}) /\ [][NextFast]_vars

\* The deep duplicate scan.
DeepFiles == {File(0, 10), File(1, 10), File(2, 10), File(3, 10)}

InitDeepScan(fileStates) ==
    /\ InitCommon /\ IdleIndexer /\ InitIndexerLocals
    /\ use_size_filter = FALSE /\ case_sensitive = TRUE /\ file_map = <<>>
    /\ IdleDel /\ norm_in = <<>> /\ norm_out = <<>> /\ IdleGroup /\ IdleSnapshots
    /\ InitDeep(fileStates)

NextDeep ==
    \/ Stop
    \/ DsStart
    \/ DsDir
    \/ DsFile
    \/ DsVisit
    \/ DsPrepare
    \/ DsHash
    \/ DsHashFile
    \/ DsTail

SpecDeep == InitDeepScan(DeepFiles) /\ [][NextDeep]_vars

\* The deep scan over a tree that another process writes to while the scan
\* runs: os.stat (line 1219) and open (line 1286) read the file as it is at
\* that moment.  A write gives an empty file the one-byte content 1; at
\* most MaxWrites writes are made.
FileWritten ==
    /\ kind = "deep"
    /\ pc \notin {"finished", "raised"}
    /\ Cardinality({k \in 1 .. Len(log) : log[k].op = "write"}) < MaxWrites
    /\ \E p \in ScanPaths :
         /\ fs[p].ex /\ fs[p].size = 0
         /\ fs' = [fs EXCEPT ![p] = File(1, 11)]
         /\ log' = Append(log, Written(p))
    /\ UNCHANGED <<kind, pc, should_stop, faults, walkVars, indexerVars, dupVars>>

\* The scan is not cancelled here: a cancelled scan emits no result.
NextDeepLive ==
    \/ DsStart
    \/ DsDir
    \/ DsFile
    \/ DsVisit
    \/ DsPrepare
    \/ DsHash
    \/ DsHashFile
    \/ DsTail
    \/ FileWritten

SpecDeepLive == InitDeepScan({File(0, 10), File(1, 10)}) /\ [][NextDeepLive]_vars

\* The four scans (full index, incremental index, fast scan, deep scan)
\* under cancellation, over file systems that differ in which files exist.
InitCancel ==
    \/ Init
    \/ InitCommon /\ InitIncremental({Gone, File(1, 10)}, {CachedRow}) /\ IdleDup
    \/ InitFastScan({Gone, File(1, 10)})
    \/ InitDeepScan({File(1, 10), File(3, 10)})

NextCancel ==
    \/ Stop
    \/ Run
    \/ RunFinally
    \/ TimerCallback
    \/ FiDrive
    \/ FiDir
    \/ FiFile
    \/ FiVisit
    \/ FiTail
    \/ IuEntry
    \/ IuDrive
    \/ IuDir
    \/ IuFile
    \/ IuVisit
    \/ IuTail
    \/ FsStart
    \/ FsDir
    \/ FsFile
    \/ FsVisit
    \/ FsTail
    \/ DsStart
    \/ DsDir
    \/ DsFile
    \/ DsVisit
    \/ DsPrepare
    \/ DsHash
    \/ DsHashFile
    \/ DsTail

\* The steps of the scan itself: everything but the caller's stop().  A
\* started QThread keeps being scheduled, hence the weak fairness.
ScanStep == NextCancel /\ pc' # pc

SpecCancel == InitCancel /\ [][NextCancel]_vars /\ WF_vars(ScanStep)

\* Deletion of a selection of duplicate files.
NextDelete ==
    \/ DeleteSelected
    \/ Stop
    \/ DelLoop
    \/ DelAttempt
    \/ DelTail

SpecDelete == InitDelete /\ [][NextDelete]_vars

\* One search thread, which its holder may stop at any moment.
NextSearch ==
    \/ \E t \in DOMAIN search_threads : SearchStop(t)
    \/ \E t \in DOMAIN search_threads : SearchLoop(t)
    \/ \E t \in DOMAIN search_threads : SearchVisit(t)
    \/ \E t \in DOMAIN search_threads : SearchFlush(t)
    \/ \E t \in DOMAIN search_threads : SearchTotal(t)

SpecSearch == InitSearch /\ [][NextSearch]_vars

\* Searches started one after another from the explorer tab.
NextSearchTab ==
    \/ PerformSearch
    \/ PsWait
    \/ PsStart
    \/ \E t \in DOMAIN search_threads : SearchLoop(t)
    \/ \E t \in DOMAIN search_threads : SearchVisit(t)
    \/ \E t \in DOMAIN search_threads : SearchFlush(t)
    \/ \E t \in DOMAIN search_threads : SearchTotal(t)

SpecSearchTab == InitSearchTab /\ [][NextSearchTab]_vars

\* The search tab with the delivery of the searches' batches to its table.
NextSearchShow ==
    \/ PerformSearch
    \/ PsWait
    \/ PsStart
    \/ \E t \in DOMAIN search_threads : SearchLoop(t)
    \/ \E t \in DOMAIN search_threads : SearchVisit(t)
    \/ \E t \in DOMAIN search_threads : SearchFlush(t)
    \/ \E t \in DOMAIN search_threads : SearchTotal(t)
    \/ OnSearchResultsDelivered

SpecSearchShow == InitSearchShow /\ [][NextSearchShow]_vars

\* The duplicate tab under any sequence of user actions.
NextTab ==
    \/ BrowseFolder
    \/ ClickStartScan
    \/ RescanTimer
    \/ CancelScan
    \/ CancelWait
    \/ \E t \in DOMAIN scanner_threads : ScannerEnds(t)
    \/ \E t \in DOMAIN scanner_threads : ScannerEmits(t)
    \/ CheckItems
    \/ ClickDeleteSelected
    \/ \E d \in DOMAIN deletion_threads : DeletionEnds(d)
    \/ DeliverSignal

SpecTab == InitTab /\ [][NextTab]_vars

(***************************************************************************)
(* Reading the history.                                                    *)
(***************************************************************************)
Emitted(sig) == \E i \in 1 .. Len(log) : log[i].op = "emit" /\ log[i].sig = sig

EmittedMsg(sig, msg) ==
    \E i \in 1 .. Len(log) :
        log[i].op = "emit" /\ log[i].sig = sig /\ log[i].arg = msg

IsCompletion(e) ==
    e.op = "emit" /\ e.sig \in {"indexing_complete", "scan_complete"}

(***************************************************************************)
(* C1.  After an incremental scan that ran to completion, where exactly    *)
(* one indexed file was deleted and nothing else changed, the deleted      *)
(* file's record is in neither self.index nor the store, and every other   *)
(* record is in both.                                                      *)
(***************************************************************************)
Unchanged(p) == fs[p].ex /\ fs[p].size = store0[p].size
                         /\ fs[p].mtime = store0[p].modified

OnlyDeleted(d) ==
    /\ store0[d].ex /\ ~fs[d].ex
    /\ \A p \in Paths \ {d} : IF store0[p].ex THEN Unchanged(p) ELSE ~fs[p].ex

ServedCache == EmittedMsg("progress", "Loaded files from cache")

C3_ServedCacheThenIncrementalScan ==
    (kind = "index" /\ pc = "finished" /\ ~timer_pending /\ ServedCache)
    => /\ EmittedMsg("progress", "Checking for changes...")
       /\ (~should_stop /\ ~Emitted("error_occurred"))
             => Emitted("indexing_complete")

(***************************************************************************)
(* C7.  After a scan's error event no further file is visited, no store    *)
(* write or prune happens and no completion event is emitted.              *)
(***************************************************************************)
C7_StoreErrorEndsScan ==
    \A i, j \in 1 .. Len(log) :
        (i < j /\ log[i].op = "emit" /\ log[i].sig = "error_occurred")
        => /\ log[j].op \notin {"visit", "save", "prune"}
           /\ ~IsCompletion(log[j])

(***************************************************************************)
(* C4.  normalize_filename maps report.txt, report (1).txt,                *)
(* report - Copy.txt and report_copy.txt to report.txt, and does not map   *)
(* report2.txt to report.txt.                                              *)
(***************************************************************************)
C4_CopyNamesNormalizeToReport ==
    (kind = "norm" /\ pc = "nf_done" /\ case_sensitive)
    => /\ norm_in \in {ReportTxt, ReportParen1, ReportDashCopy, ReportUnderCopy}
            => norm_out = ReportTxt
       /\ norm_in = Report2Txt => norm_out # ReportTxt

(***************************************************************************)
(* C5.  A fast scan that completes emits every group of at least two       *)
(* scanned files that share the key: the normalized name, or the           *)
(* normalized name and the size when use_size_filter is set.               *)
(***************************************************************************)
\* The argument of the scan_complete event.
ScanResult ==
    log[CHOOSE i \in 1 .. Len(log) :
            log[i].op = "emit" /\ log[i].sig = "scan_complete"].arg

FastGroupOf(p) == {q \in ScanPaths : fs[q].ex /\ fast_key(q) = fast_key(p)}

C5_EveryFastGroupEmitted ==
    (kind = "fast" /\ Emitted("scan_complete") /\ faults = 0)
    => \A p \in ScanPaths :
          (fs[p].ex /\ Cardinality(FastGroupOf(p)) >= 2)
          => \E k \in DOMAIN ScanResult :
                PathsOf(ScanResult[k]) = FastGroupOf(p)

(***************************************************************************)
(* C6.  When the cancellation flag of a scan (full index, incremental      *)
(* index, fast scan, deep scan) is set while its walk is in progress, the  *)
(* task visits at most one further file, is never stuck before its end,    *)
(* and emits no completion event.                                          *)
(***************************************************************************)
WalkPositions ==
    {"fi_drive", "fi_dir", "fi_file", "fi_visit",
     "iu_drive", "iu_dir", "iu_file", "iu_visit",
     "fs_dir", "fs_file", "fs_visit",
     "ds_dir", "ds_file", "ds_visit"}

VisitsAfter(i) ==
    Cardinality({j \in i + 1 .. Len(log) : log[j].op = "visit"})

StoppedInWalk(i) == log[i].op = "stop" /\ log[i].sig \in WalkPositions

CancelledInWalk == \E i \in 1 .. Len(log) : StoppedInWalk(i)

C6_CancelEndsWalkWithoutCompletion ==
    /\ [](\A i \in 1 .. Len(log) :
            StoppedInWalk(i)
            => /\ VisitsAfter(i) <= 1
               /\ \A j \in 1 .. Len(log) : ~IsCompletion(log[j]))
    /\ CancelledInWalk ~> pc \in {"finished", "raised"}

\* The flag was set while a fast scan was about to visit a file: that file
\* was visited, and the scan has ended.
C6_Witness ==
    /\ kind = "fast" /\ pc = "finished"
    /\ \E i \in 1 .. Len(log) :
          log[i].op = "stop" /\ log[i].sig = "fs_visit" /\ VisitsAfter(i) = 1

(***************************************************************************)
(* C8.  A deletion that is not cancelled reports counts that add up to the *)
(* length of its list: every listed file was attempted, in order; each     *)
(* attempt that removed nothing (missing path, path not writable, removal  *)
(* raised) is counted as failed, and each removal as deleted.  A list of   *)
(* one missing and one valid path is reported as (1, 1).                   *)
(***************************************************************************)
Attempts == SelectSeq(log, LAMBDA e : e.op = "attempt")

AttemptsWith(outcomes) ==
    Cardinality({i \in 1 .. Len(Attempts) : Attempts[i].sig \in outcomes})

OneMissingOneValid ==
    /\ Len(files_to_delete) = 2
    /\ AttemptsWith({"missing"}) = 1
    /\ AttemptsWith({"ok"}) = 1

C8_CountsAddUpToListLength ==
    \A k \in 1 .. Len(log) :
        (log[k].op = "emit" /\ log[k].sig = "deletion_complete")
        => /\ log[k].arg[1] + log[k].arg[2] = Len(files_to_delete)
           /\ Len(Attempts) = Len(files_to_delete)
           /\ \A i \in 1 .. Len(Attempts) :
                 Attempts[i].arg = files_to_delete[i].path
           /\ log[k].arg[1] = AttemptsWith({"ok"})
           /\ log[k].arg[2] = AttemptsWith({"missing", "readonly", "raise"})
           /\ OneMissingOneValid => log[k].arg = <<1, 1>>

\* A list whose first path is missing and whose second is valid has been
\* reported as (1, 1).
C8_Witness ==
    /\ pc = "finished"
    /\ Len(files_to_delete) = 2
    /\ Len(Attempts) = 2
    /\ Attempts[1].sig = "missing" /\ Attempts[2].sig = "ok"
    /\ EmittedMsg("deletion_complete", <<1, 1>>)

(***************************************************************************)
(* C9.  A deletion of n files that is not cancelled has emitted exactly n  *)
(* progress events when it reports, one after every attempt, and the last  *)
(* of them is (n, n).                                                      *)
(***************************************************************************)
Progress == SelectSeq(log, LAMBDA e : e.op = "emit" /\ e.sig = "progress")

C9_ProgressAfterEveryAttempt ==
    Emitted("deletion_complete")
    => /\ Len(Progress) = Len(files_to_delete)
       /\ Progress[Len(Progress)].arg
             = <<Len(files_to_delete), Len(files_to_delete)>>

(***************************************************************************)
(* C10.  A step that removes a file removes a file of the list the         *)
(* deletion task was started with, which is the selection the user         *)
(* confirmed; and a deletion task is started only for a selection that is  *)
(* not empty and was confirmed with Yes.                                   *)
(***************************************************************************)
Confirmed(sel) == \E k \in 1 .. Len(log) : log[k] = Selected(sel, "Yes")

RemovesOnlyListed ==
    \A p \in ScanPaths :
        fs'[p] # fs[p]
        => /\ fs'[p] = Gone
           /\ p \in PathsOf(files_to_delete)
           /\ Confirmed(files_to_delete)

StartedOnlyWhenConfirmed ==
    \A k \in 1 .. Len(log) :
        log[k].op = "start"
        => /\ log[k].arg # <<>>
           /\ Confirmed(log[k].arg)
           /\ files_to_delete = log[k].arg

C10_RemovesOnlyConfirmedSelection ==
    /\ [][RemovesOnlyListed]_vars
    /\ [](/\ StartedOnlyWhenConfirmed
          /\ files_to_delete # <<>>
                => \E k \in 1 .. Len(log) : log[k].op = "start")

\* A confirmed selection of one of two existing files: the task removed that
\* file, and the other is still there.
C10_Witness ==
    /\ pc = "finished"
    /\ Confirmed(files_to_delete)
    /\ \E p, q \in ScanPaths :
          /\ PathsOf(files_to_delete) = {p}
          /\ Attempts = <<Attempt(p, "ok")>>
          /\ ~fs[p].ex
          /\ q # p /\ fs[q].ex

(***************************************************************************)
(* C11.  The total a search emits with search_complete is the number of    *)
(* records of its index whose name holds the query and, when a folder      *)
(* filter is given, whose path holds the filter: the number of records it  *)
(* delivered in its batches.                                               *)
(***************************************************************************)
\* The records of the thread's index that satisfy the predicate, in order.
MatchingRecords(t) ==
    SelectSeq(search_threads[t].index,
              LAMBDA e : search_matches(search_threads[t], e))

\* The batches thread t has emitted, in order, and their concatenation.
BatchesOf(t) ==
    SelectSeq(log, LAMBDA e : e.op = "emit" /\ e.sig = "results_ready"
                               /\ e.thread = t)

RECURSIVE Concat(_)
Concat(batches) ==
    IF batches = <<>> THEN <<>>
    ELSE Head(batches).arg \o Concat(Tail(batches))

Delivered(t) == Concat(BatchesOf(t))

Completed(t) ==
    \E k \in 1 .. Len(log) :
        log[k].op = "emit" /\ log[k].sig = "search_complete" /\ log[k].thread = t

StoppedBefore(t, k) ==
    \E j \in 1 .. k - 1 : log[j].op = "stop" /\ log[j].thread = t

IsPrefix(a, b) == Len(a) <= Len(b) /\ SubSeq(b, 1, Len(a)) = a

C13_OneScannerAtATime == Cardinality(Running(scanner_threads)) <= 1

(***************************************************************************)
(* C14.  A search started while another is in flight is started only after *)
(* the old one was told to stop and has ended: at most one search thread   *)
(* is running, every thread but the newest has ended, with its flag set    *)
(* unless it completed, and no thread emits an event after a newer thread  *)
(* was started.                                                            *)
(***************************************************************************)
C14_OldSearchEndsBeforeNewStarts ==
    /\ Cardinality({t \in DOMAIN search_threads : IsRunning(t)}) <= 1
    /\ \A t \in DOMAIN search_threads :
          t < Len(search_threads)
          => /\ ~IsRunning(t)
             /\ Completed(t) \/ search_threads[t].should_stop
    /\ \A j, k \in 1 .. Len(log) :
          (j < k /\ log[j].op = "start" /\ log[k].op = "emit")
          => log[k].thread >= log[j].thread

\* The first search had emitted a batch when it was told to stop; it ended
\* without completing, and the second search ran to completion.
C14_Witness ==
    /\ Len(search_threads) = 2
    /\ BatchesOf(1) # <<>>
    /\ search_threads[1].should_stop /\ ~Completed(1)
    /\ Completed(2)

(***************************************************************************)
(* C15.  Once run() has chosen, without a store failure: it served the     *)
(* cache (and scheduled the incremental scan) exactly when no full index   *)
(* was forced and the cached snapshot held at least cache_threshold        *)
(* entries; otherwise it started the full scan.  A snapshot of exactly     *)
(* cache_threshold entries is served.                                      *)
(***************************************************************************)
CachedEntries == Len(load_file_index(store0))

C15_CacheServedFromThresholdOn ==
    (kind = "index" /\ pc # "run" /\ faults = 0)
    => (ServedCache <=> ~force_full_index /\ CachedEntries >= cache_threshold)

(***************************************************************************)
(* C16.  In an incremental scan over a file system that is as the store    *)
(* describes it, and which is neither cancelled nor meets a failure: the   *)
(* snapshot keeps the records it was loaded with, nothing is collected as  *)
(* new or updated, no save is made, the prune removes nothing and the      *)
(* store stays as it was, up to and including the completion event.        *)
(***************************************************************************)
NothingChanged ==
    \A p \in Paths : IF store0[p].ex THEN Unchanged(p) ELSE ~fs[p].ex

RecordsOf(entries) == {entries[i] : i \in 1 .. Len(entries)}

C16_NoChangeLeavesSnapshotAndStore ==
    (kind = "increm" /\ NothingChanged /\ faults = 0 /\ ~should_stop)
    => /\ RecordsOf(index) = RecordsOf(load_file_index(store0))
       /\ Len(index) = Len(load_file_index(store0))
       /\ new_files = <<>> /\ updated_files = <<>>
       /\ store = store0
       /\ \A k \in 1 .. Len(log) :
             /\ log[k].op # "save"
             /\ log[k].op = "prune" => log[k].arg = {}
       /\ pc = "finished" => EmittedMsg("indexing_complete", Len(index))

\* A scan over an unchanged file system of at least two files has visited
\* them, called the prune and completed.
C16_Witness ==
    /\ kind = "increm" /\ pc = "finished"
    /\ NothingChanged /\ faults = 0 /\ ~should_stop
    /\ Cardinality({k \in 1 .. Len(log) : log[k].op = "visit"}) >= 2
    /\ \E k \in 1 .. Len(log) : log[k].op = "prune"
    /\ Emitted("indexing_complete")

(***************************************************************************)
(* C17.  In every state of the indexer, during and after a full scan and   *)
(* during and after an incremental scan, no two records of the snapshot    *)
(* have the same path.                                                     *)
(***************************************************************************)
C17_SnapshotPathsUnique ==
    \A i, j \in 1 .. Len(index) : i # j => index[i].path # index[j].path

\* An incremental scan has added a record for a new file and replaced the
\* record of a changed one.
C17_Witness ==
    /\ kind = "increm" /\ pc = "finished"
    /\ new_files # <<>> /\ updated_files # <<>>
    /\ Len(index) >= 3
    /\ \E i \in 1 .. Len(index) : index[i] = updated_files[1]

(***************************************************************************)
(* C18.  In a deep scan that completes, any two non-empty files of the     *)
(* walked tree that hold the same content are members of one emitted       *)
(* group, the group stored under their digest.  As stated, for every scan  *)
(* in which no file failed in the hashing phase, this does not hold: a     *)
(* file whose os.stat fails in the size phase is skipped as well (lines    *)
(* 1230-1231).  It holds for the scans in which no file failed in either   *)
(* phase.                                                                  *)
(***************************************************************************)
\* The results the scan has emitted: each a dict digest -> list of files.
DeepResults ==
    { log[k].arg : k \in { i \in 1 .. Len(log) :
                              log[i].op = "emit" /\ log[i].sig = "scan_complete" } }

MembersOf(fls) == { fls[i].path : i \in 1 .. Len(fls) }

SameContent(p, q) ==
    /\ p # q /\ fs[p].ex /\ fs[q].ex
    /\ fs[p].size > 0
    /\ fs[p].content = fs[q].content

GroupedUnderDigest(result, p, q) ==
    /\ hash_file(p) \in DOMAIN result
    /\ {p, q} \subseteq MembersOf(result[hash_file(p)])

HashingFailed == \E k \in 1 .. Len(log) : log[k].op = "hash_failed"

C19_GroupsShareDigestAndHaveTwo ==
    kind = "deep"
    => \A result \in DeepResults :
         /\ \A h \in DOMAIN result :
               /\ Len(result[h]) >= 2
               /\ \A i \in 1 .. Len(result[h]) :
                     /\ result[h][i].hash = h
                     /\ hash_file(result[h][i].path) = h
         /\ \A p, q \in ScanPaths :
               (fs[p].size = fs[q].size /\ fs[p].content # fs[q].content)
               => ~ \E h \in DOMAIN result : {p, q} \subseteq MembersOf(result[h])

\* A scan has emitted a group although it also hashed a file of the
\* group's size with another content, and one hashing failed.
C19_Witness ==
    /\ kind = "deep" /\ HashingFailed
    /\ \E result \in DeepResults : \E h \in DOMAIN result : \E r \in ScanPaths :
          /\ fs[r].size = result[h][1].size
          /\ fs[r].content # fs[result[h][1].path].content
          /\ \E k \in 1 .. Len(log) : log[k].op = "hash" /\ log[k].arg = r


(***************************************************************************)
(* C20.  A file that is empty when the size phase of a deep scan visits it *)
(* is not a member of any group the scan emits, whatever is written to it  *)
(* later in the scan.                                                      *)
(***************************************************************************)
\* The size phase visited p while p was empty: p is still empty, or it was
\* written to after the visit (a write goes to an empty file only).
EmptyWhenVisited(p) ==
    \E i \in 1 .. Len(log) :
        /\ log[i] = Visit(p)
        /\ \/ fs[p].size = 0
           \/ \E j \in i + 1 .. Len(log) : log[j] = Written(p)

C20_EmptyFileInNoGroup ==
    kind = "deep"
    => \A result \in DeepResults : \A h \in DOMAIN result : \A p \in ScanPaths :
          EmptyWhenVisited(p) => p \notin MembersOf(result[h])

\* A scan has emitted a group of two files; two further files were empty
\* when visited, one was then given the group's content, one is still
\* empty.
C20_Witness ==
    /\ kind = "deep"
    /\ \E result \in DeepResults : \E h \in DOMAIN result : \E p, q \in ScanPaths :
          /\ EmptyWhenVisited(p) /\ hash_file(p) = h
          /\ EmptyWhenVisited(q) /\ fs[q].size = 0

(***************************************************************************)
(* C21.  wasted_space of a group is its total size less the size of one    *)
(* largest member; it is 0 for a group of fewer than two members, and 200  *)
(* for members of 100, 100 and 300 bytes in any order.                     *)
(***************************************************************************)
MaxOf(S) == CHOOSE x \in S : \A y \in S : y <= x

GroupSizeSet == { group.files[i].size : i \in 1 .. Len(group.files) }

C21_WastedIsTotalLessLargest ==
    (kind = "group" /\ pc = "ws_done")
    => /\ Len(group.files) < 2 => wasted = 0
       /\ Len(group.files) >= 2 => wasted = total_size(group) - MaxOf(GroupSizeSet)
       /\ (Len(group.files) = 3 /\ GroupSizeSet = {100, 300}
             /\ total_size(group) = 500) => wasted = 200

\* wasted_space has measured the group of 100, 100 and 300 bytes, the
\* largest file in the middle.
C21_Witness ==
    /\ kind = "group" /\ pc = "ws_done"
    /\ SizesOf(group.files) = <<100, 300, 100>>
    /\ wasted = 200

(***************************************************************************)
(* C22.  When the incremental scan has stat'ed a walked file: a path that  *)
(* is not in the store is appended to the snapshot and queued as new; a    *)
(* path that is in the store has its snapshot entry replaced and is queued *)
(* as updated exactly when its size differs from the cached size or its    *)
(* modification time is more than 1 second away from the cached one, and   *)
(* is left alone otherwise, one second apart with equal size included.     *)
(***************************************************************************)
DiffersFromCache(p) ==
    \/ fs[p].size # store[p].size
    \/ fs[p].mtime - store[p].modified > 1
    \/ store[p].modified - fs[p].mtime > 1

RecordedIffChanged ==
    (kind = "increm" /\ pc = "iu_visit" /\ checked' = checked + 1)
    => LET p == files[fileIdx]
           entry == FileEntry(p)
       IN  IF ~store[p].ex
           THEN /\ new_files' = Append(new_files, entry)
                /\ index' = Append(index, entry)
                /\ updated_files' = updated_files
           ELSE /\ new_files' = new_files
                /\ IF DiffersFromCache(p)
                   THEN /\ updated_files' = Append(updated_files, entry)
                        /\ Len(index') = Len(index)
                        /\ \A i \in 1 .. Len(index) :
                              index'[i] = IF index[i].path = p THEN entry ELSE index[i]
                   ELSE /\ updated_files' = updated_files
                        /\ index' = index

C22_RecordedIffSizeOrTimeDiffers == [][RecordedIffChanged]_vars

\* A scan has ended that met a new file, a stored file one second off its
\* cached time (left alone) and a stored file two seconds off (updated).
C22_Witness ==
    /\ kind = "increm" /\ pc = "finished" /\ faults = 0 /\ ~should_stop
    /\ new_files # <<>>
    /\ \E p, q \in Paths :
          /\ store0[p].ex /\ fs[p].ex /\ fs[p].size = store0[p].size
          /\ fs[p].mtime - store0[p].modified = 1
          /\ p \notin PathsOf(updated_files)
          /\ store0[q].ex /\ fs[q].ex /\ fs[q].size = store0[q].size
          /\ fs[q].mtime - store0[q].modified = 2
          /\ q \in PathsOf(updated_files)

(***************************************************************************)
(* C23.  In a full scan every store write carries at most batch_size       *)
(* records, and when the scan has ended, completed or cancelled, without a *)
(* store error, every record of the snapshot is in the store.              *)
(***************************************************************************)
FullScanRan == EmittedMsg("progress", "Indexing drive")

StoreErrorMet == \E k \in 1 .. Len(log) : log[k].op = "save_failed"

SnapshotStored ==
    \A i \in 1 .. Len(index) :
        /\ store[index[i].path].ex
        /\ store[index[i].path].size = index[i].size
        /\ store[index[i].path].modified = index[i].modified

C23_WritesBoundedAndSnapshotStored ==
    (kind = "index" /\ FullScanRan)
    => /\ \A k \in 1 .. Len(log) :
             log[k].op = "save" => Cardinality(log[k].arg) <= batch_size
       /\ (pc = "finished" /\ ~StoreErrorMet) => SnapshotStored

(***************************************************************************)
(* C24.  In a deep scan every file a digest is computed or attempted for   *)
(* is non-empty and lies in a size bucket of phase 1 that holds at least   *)
(* two files; a file whose size no other scanned file has is never hashed. *)
(***************************************************************************)
HashedPaths ==
    { log[k].arg : k \in { i \in 1 .. Len(log) : log[i].op \in {"hash", "hash_failed"} } }

BucketOf(p) ==
    { size_map[b].files : b \in { i \in 1 .. Len(size_map) :
                                     p \in { size_map[i].files[j] :
                                               j \in 1 .. Len(size_map[i].files) } } }

C24_HashesOnlySharedSizes ==
    kind = "deep"
    => \A p \in HashedPaths :
          /\ fs[p].size > 0
          /\ \E bucket \in BucketOf(p) : Len(bucket) >= 2
          /\ \E q \in ScanPaths \ {p} : fs[q].size = fs[p].size

\* A scan has completed that hashed two files of one size and left alone a
\* non-empty file of a size of its own, which phase 1 had bucketed.
C24_Witness ==
    /\ kind = "deep" /\ pc = "finished" /\ DeepResults # {}
    /\ Cardinality(HashedPaths) >= 2
    /\ \E p \in ScanPaths :
          /\ fs[p].size > 0
          /\ BucketOf(p) = {<<p>>}
          /\ p \notin HashedPaths

(***************************************************************************)
(* C25.  In a deep scan whose only failures are those of hashing or        *)
(* stat-ing candidates in phase 2, no error event is emitted, a scan that  *)
(* is not cancelled ends with scan_complete, and the emitted groups are    *)
(* those of the same tree without the failing files.                       *)
(***************************************************************************)
HashFailedPaths ==
    { log[k].arg : k \in { i \in 1 .. Len(log) : log[i].op = "hash_failed" } }

\* The groups of the non-empty files of S: under every digest that at least
\* two of them have, those files in walk order.
GroupsOf(S) ==
    LET live == { p \in S : fs[p].ex /\ fs[p].size > 0 }
        digests == { hash_file(p) : p \in { q \in live :
                        \E r \in live \ {q} : hash_file(r) = hash_file(q) } }
    IN  [h \in digests |->
            LET ps == SortedSeq({ p \in live : hash_file(p) = h })
            IN  [i \in 1 .. Len(ps) |-> DuplicateFile(ps[i], h)]]

C25_HashFailureDropsOnlyThatFile ==
    (kind = "deep" /\ faults = Cardinality(HashFailedPaths))
    => /\ ~Emitted("error_occurred")
       /\ \A result \in DeepResults : result = GroupsOf(ScanPaths \ HashFailedPaths)
       /\ (pc = "finished" /\ ~should_stop) => DeepResults # {}

\* Of three files of one content one failed to hash, and the scan emitted
\* the group of the other two.
C25_Witness ==
    /\ kind = "deep" /\ pc = "finished"
    /\ \E p \in HashFailedPaths : \E result \in DeepResults :
          /\ hash_file(p) \in DOMAIN result
          /\ Len(result[hash_file(p)]) = 2
          /\ p \notin MembersOf(result[hash_file(p)])

(***************************************************************************)
(* C26.  A list that has become the explorer tab's file_index, or the      *)
(* index of a search thread, keeps the content it had at that moment: the  *)
(* indexer thread does not append to, replace in or clear it, and no       *)
(* operation of the tab sorts or extends it.                               *)
(***************************************************************************)
C26_HandedSnapshotNeverMutated ==
    kind = "explorer" => \A h \in handed : ListAt(h.ref) = h.items

\* The tab holds the list of a finished thread, a search thread holds an
\* earlier copy, a second indexer thread has appended to its own list, and
\* the displayed list has been sorted.
C26_Witness ==
    /\ kind = "explorer"
    /\ \E k \in 1 .. Len(log) : log[k].op = "reindex"
    /\ index # <<>>
    /\ explorer.file_index # 0
    /\ explorer.search_index \notin {-1, explorer.file_index}
    /\ ListAt(explorer.search_index) # <<>>
    /\ Len(heap[explorer.files]) >= 2
    /\ heap[explorer.files] # sort_by_path(heap[explorer.files])

(***************************************************************************)
(* C27.  When a full scan has run to completion, forced or not, the paths  *)
(* of the store are the paths of the snapshot.                             *)
(***************************************************************************)
C27_StoreHoldsSnapshotPathsAfterFullScan ==
    (kind = "index" /\ pc = "finished" /\ FullScanRan
       /\ Emitted("indexing_complete") /\ faults = 0)
    => get_indexed_paths(store) = PathsOf(index)

(***************************************************************************)
(* C28.  normalize_filename is idempotent: the key it returns for a file   *)
(* name is returned unchanged when it is normalized again.                 *)
(***************************************************************************)
C28_NormalizeIsIdempotent ==
    (kind = "norm" /\ pc = "nf_done")
    => normalize_filename(norm_out, case_sensitive) = norm_out

(***************************************************************************)
(* C29.  Once perform_search has started the search for the current query, *)
(* the table shows only records that match that query: every batch put in  *)
(* the table after the start of the latest search holds only records whose *)
(* name contains its query, and so does every record the table shows while *)
(* the GUI thread is idle.                                                 *)
(***************************************************************************)
LatestSearchStart ==
    CHOOSE k \in 1 .. Len(log) :
        log[k].op = "start" /\ log[k].thread = search_thread

MatchesLatestQuery(records) ==
    \A i \in 1 .. Len(records) :
        search_matches(search_threads[search_thread], records[i])

ShownSinceLatestStartMatches ==
    \A j \in 1 .. Len(log) :
        (j > LatestSearchStart /\ log[j].op = "shown")
        => MatchesLatestQuery(log[j].arg)

C29_TableShowsOnlyLatestQuery ==
    (kind = "searchtab" /\ explorer.files # 0 /\ search_thread # 0
        /\ pc = "ui_idle")
    => /\ ShownSinceLatestStartMatches
       /\ MatchesLatestQuery(heap[explorer.files])


(***************************************************************************)
(* C30.  Once cancel_scan has returned for a scan, on_scan_complete is     *)
(* never invoked for that scan: in the tab's history no invocation of      *)
(* on_scan_complete with the result of a scanner thread comes after the    *)
(* return of the cancel_scan that stopped and waited for that thread.      *)
(***************************************************************************)
CancelReturns ==
    {j \in 1 .. Len(log) : log[j].op = "cancelled"}

CompletionsHandled ==
    {k \in 1 .. Len(log) : log[k].op = "on_scan_complete"}

C30_NoCompletionAfterCancelReturned ==
    kind = "duptab"
    => \A j \in CancelReturns : \A k \in CompletionsHandled :
          (j < k) => log[k].arg # log[j].arg


=============================================================================
